---------------------------- MODULE Spec2Model ----------------------------
(***************************************************************************)
(* A model of lpil-modules: the grammar store and its pruner               *)
(* (grammars.mjs), the structure store and the three-phase runner          *)
(* (runner.ts).                                                            *)
(*                                                                         *)
(* JavaScript strings are sequences of one-character strings, so that      *)
(* endsWith, startsWith, slice and '#'+key are computed on characters.     *)
(* A JavaScript object is a record whose DOMAIN holds the properties that  *)
(* are present.  A parsed grammar is an object graph: the rules of one     *)
(* grammar live in its "nodes" store under the path at which the parser    *)
(* met them, and a pattern list is a list of such paths, so that the       *)
(* in-place deletions of the pruner act on shared arrays as they do in     *)
(* the source.  Grammar objects themselves live in a heap of references.   *)
(***************************************************************************)
EXTENDS Integers, Sequences, FiniteSets, TLC

VARIABLES
  heap,                   \* reference -> grammar object (the object store)
  originalScope2grammar,  \* Grammars.originalScope2grammar: <<[scope, ref]>> in key order
  scope2grammar,          \* Grammars.scope2grammar:         <<[scope, ref]>> in key order
  loadedGrammars,         \* Grammars.loadedGrammars: the paths marked as loaded
  pendingLoads,           \* loadGrammarFrom calls suspended at `await fsp.readFile`
  lastParsed,             \* scope -> the definition the latest load of that scopeName parsed
  lastCall,               \* what the latest call did (its name, arguments and outcome)
  scopes2keep,            \* the caller's keep-set object handed to pruneGrammars
  structs,                \* Structures.structs: the Map object
  firstValue,             \* name -> the value of the first newStructure call for it
  config,                 \* the configuration runTMGTool is called with
  pc,                     \* where runTMGTool stands
  actionState,            \* registered action -> idle, running, fulfilled or rejected
  phaseLog,               \* the phases started, in the order they were started
  documents,              \* DocumentCache.documents: name -> Document
  tp,                     \* the traceParseOf call under way: its position and locals
  tokenizerCalls,         \* the tokenizeLine calls of that call, in order
  handlerCalls,           \* the anAction.run calls of that call, in order
  debugLog                \* what that call handed to logger.debug, in order

gvars == <<heap, originalScope2grammar, scope2grammar, loadedGrammars,
           pendingLoads, lastParsed, scopes2keep>>
svars == <<structs, firstValue>>
rvars == <<config, pc, actionState, phaseLog>>
tvars == <<documents, tp, tokenizerCalls, handlerCalls, debugLog>>
vars  == <<gvars, svars, rvars, tvars, lastCall>>

---------------------------------------------------------------------------
(* Bounds of the model.                                                    *)

\* grammar paths one behaviour marks as loaded
MaxLoads == 2

\* frames of the keep* functions the engine's call stack holds before it
\* throws RangeError; deeper than any terminating walk of the grammars below
MaxStack == 14

---------------------------------------------------------------------------
(* Strings and objects.                                                    *)

Has(obj, prop) == prop \in DOMAIN obj

Range(seq) == {seq[i] : i \in DOMAIN seq}

EmptyMap == [k \in {} |-> TRUE]

\* !value for a string-valued property: undefined and "" are falsy
Falsy(obj, prop) == ~Has(obj, prop) \/ obj[prop] = <<>>

EndsWith(str, suffix) ==
  /\ Len(suffix) <= Len(str)
  /\ SubSeq(str, Len(str) - Len(suffix) + 1, Len(str)) = suffix

StartsWith(str, prefix) ==
  /\ Len(prefix) <= Len(str)
  /\ SubSeq(str, 1, Len(prefix)) = prefix

\* str.slice(1)
Slice1(str) == IF str = <<>> THEN <<>> ELSE Tail(str)

\* map[key] read for its truthiness, as in `if (scopes2keep[aScope])`
Truthy(map, key) == key \in DOMAIN map /\ map[key]

\* the property key JavaScript makes of the value undefined
Undefined == <<"u","n","d","e","f","i","n","e","d">>

---------------------------------------------------------------------------
(* Scope names, includes, paths and regular expressions of the grammars.   *)

KwA     == <<"k","w",".","a">>
KwB     == <<"k","w",".","b">>
KwR     == <<"k","w",".","r">>
MetaBlk == <<"m","b">>
ScT     == <<"t">>
ScM     == <<"m">>
ScA     == <<"A">>
ScB     == <<"B">>
ScC     == <<"c">>
ScN     == <<"n">>
ScS     == <<"s">>

HashA   == <<"#","a">>
HashB   == <<"#","b">>
HashR   == <<"#","r">>
HashU   == <<"#","u">>
Self    == <<"$","s","e","l","f">>
Base    == <<"$","b","a","s","e">>

DotSh   == <<".","s","h">>
DotPy   == <<".","p","y">>
Shebang == <<"^","#","!">>

PathT    == <<"t",".","j","s","o","n">>
PathTDot == <<".","/","t",".","j","s","o","n">>
PathT2   == <<"t","2",".","j","s","o","n">>
PathM    == <<"m",".","j","s","o","n">>
PathA    == <<"A",".","j","s","o","n">>
PathB    == <<"B",".","j","s","o","n">>
PathC    == <<"c",".","j","s","o","n">>
PathN    == <<"n",".","j","s","o","n">>
PathS    == <<"s",".","j","s","o","n">>
PathAnon == <<"x",".","j","s","o","n">>
PathBad  == <<"b","a","d",".","j","s","o","n">>
PathYaml == <<"g",".","y","a","m","l">>


---------------------------------------------------------------------------
(* The grammar files on disk: what fsp.readFile gives for each path.  A    *)
(* JSON document is a tree; "repository" lists its members in file order.  *)
(* wellFormed = FALSE is a file whose content JSON.parse rejects.         *)

DocT ==
  [scopeName |-> ScT, fileTypes |-> <<DotSh>>,
   patterns  |-> << [match |-> "a", name |-> KwA],
                    [match |-> "b", name |-> KwB] >>]

DocT2 ==
  [scopeName |-> ScT,
   patterns  |-> << [match |-> "r", name |-> KwR] >>]

DocM ==
  [scopeName |-> ScM, firstLineMatch |-> Shebang, fileTypes |-> <<DotPy, DotSh>>,
   patterns  |-> << [name |-> MetaBlk, begin |-> "{", end |-> "}",
                     patterns |-> << [include |-> HashR], [match |-> "x"] >>],
                    [include |-> Self],
                    [match |-> "c", captures |-> << [name |-> KwB] >>],
                    [include |-> HashA] >>,
   repository |-> << [key |-> <<"r">>, rule |-> [match |-> "r", name |-> KwR]],
                     [key |-> <<"a">>,
                      rule |-> [patterns |-> << [match |-> "k", contentName |-> KwA],
                                               [include |-> HashU] >>]],
                     [key |-> <<"u">>, rule |-> [match |-> "u", name |-> KwB]],
                     [key |-> <<"z">>, rule |-> [match |-> "z"]] >>]

DocA ==
  [scopeName |-> ScA, firstLineMatch |-> <<"s","h">>,
   patterns  |-> << [include |-> ScB], [match |-> "a", name |-> KwA] >>]

DocB ==
  [scopeName |-> ScB, fileTypes |-> <<DotSh>>,
   patterns  |-> << [include |-> ScA],
                    [begin |-> "(", end |-> ")",
                     beginCaptures |-> << [name |-> KwB] >>,
                     endCaptures   |-> << [match |-> ")"] >>] >>]

DocC ==
  [scopeName |-> ScC,
   patterns  |-> << [include |-> HashA] >>,
   repository |-> << [key |-> <<"a">>, rule |-> [include |-> HashB]],
                     [key |-> <<"b">>, rule |-> [include |-> HashA]] >>]

DocN ==
  [scopeName |-> ScN, fileTypes |-> <<DotPy>>,
   repository |-> << [key |-> <<"a">>, rule |-> [include |-> HashB]],
                     [key |-> <<"b">>, rule |-> [include |-> HashA]] >>]

\* a grammar with $self and $base includes: in the list of a named rule, at
\* the root, alone in a nested list, and in the list of a repository rule
DocS ==
  [scopeName |-> ScS,
   patterns  |-> << [name |-> MetaBlk, begin |-> "{", end |-> "}",
                     patterns |-> << [include |-> Self],
                                     [match |-> "a", name |-> KwA] >>],
                    [include |-> Base],
                    [patterns |-> << [include |-> Self] >>],
                    [include |-> HashR],
                    [match |-> "b", name |-> KwB] >>,
   repository |-> << [key |-> <<"r">>,
                      rule |-> [patterns |-> << [include |-> Self],
                                               [match |-> "r", name |-> KwR] >>]] >>]

DocAnon ==
  [patterns |-> << [match |-> "a", name |-> KwA] >>]

Files ==
  (PathT    :> [wellFormed |-> TRUE,  doc |-> DocT])  @@
  (PathT2   :> [wellFormed |-> TRUE,  doc |-> DocT2]) @@
  (PathM    :> [wellFormed |-> TRUE,  doc |-> DocM])  @@
  (PathA    :> [wellFormed |-> TRUE,  doc |-> DocA])  @@
  (PathB    :> [wellFormed |-> TRUE,  doc |-> DocB])  @@
  (PathC    :> [wellFormed |-> TRUE,  doc |-> DocC])  @@
  (PathN    :> [wellFormed |-> TRUE,  doc |-> DocN])  @@
  (PathS    :> [wellFormed |-> TRUE,  doc |-> DocS])  @@
  (PathAnon :> [wellFormed |-> TRUE,  doc |-> DocAnon]) @@
  (PathBad  :> [wellFormed |-> FALSE, doc |-> [scopeName |-> ScT]])

\* the paths a caller hands to loadGrammarFrom
CallPaths == (DOMAIN Files \ {PathS}) \cup {PathTDot, PathYaml}

\* the paths of the grammars that include each other by scope name, and of
\* the grammar without patterns
LinkedPaths == {PathA, PathB, PathN}

\* the paths of the grammar with $self includes and of a plain grammar
SelfPaths == {PathS, PathT}

\* the paths the behaviours of the grammar store load and prune
StorePaths == {PathT, PathTDot, PathM, PathC, PathBad, PathYaml}

\* Config.normalizePath: resolves the path; here it drops a leading "./"
normalizePath(aPath) ==
  IF StartsWith(aPath, <<".","/">>) THEN SubSeq(aPath, 3, Len(aPath)) ELSE aPath

---------------------------------------------------------------------------
(* JSON.parse: the object graph of a grammar document.  Root pattern i is  *)
(* the node <<0, i>>, repository member j the node <<j>>, and the i-th     *)
(* nested pattern of node p the node p \o <<i>>.                           *)

RECURSIVE NodesOfRule(_, _), NodesOfList(_, _, _)

NodeOf(aRule, path) ==
  IF Has(aRule, "patterns")
    THEN [aRule EXCEPT !.patterns = [i \in DOMAIN aRule.patterns |-> path \o <<i>>]]
    ELSE aRule

NodesOfRule(aRule, path) ==
  (path :> NodeOf(aRule, path)) @@
  (IF Has(aRule, "patterns") THEN NodesOfList(aRule.patterns, path, 1) ELSE EmptyMap)

NodesOfList(rules, path, i) ==
  IF i > Len(rules) THEN EmptyMap
  ELSE NodesOfRule(rules[i], path \o <<i>>) @@ NodesOfList(rules, path, i + 1)

RECURSIVE NodesOfRepository(_, _)
NodesOfRepository(members, j) ==
  IF j > Len(members) THEN EmptyMap
  ELSE NodesOfRule(members[j].rule, <<j>>) @@ NodesOfRepository(members, j + 1)

\* the last member with a key gives its value, as in a JSON object
RepositoryOf(members) ==
  [k \in {members[j].key : j \in DOMAIN members} |->
     <<CHOOSE j \in DOMAIN members :
         /\ members[j].key = k
         /\ \A j2 \in DOMAIN members : members[j2].key = k => j2 <= j>>]

JSONparse(doc) ==
  ("nodes" :>
     ((IF Has(doc, "patterns") THEN NodesOfList(doc.patterns, <<0>>, 1) ELSE EmptyMap) @@
      (IF Has(doc, "repository") THEN NodesOfRepository(doc.repository, 1) ELSE EmptyMap))) @@
  (IF Has(doc, "patterns")
     THEN "patterns" :> [i \in DOMAIN doc.patterns |-> <<0, i>>] ELSE EmptyMap) @@
  (IF Has(doc, "repository")
     THEN "repository" :> RepositoryOf(doc.repository) ELSE EmptyMap) @@
  doc

(* The structure of an object graph: every pattern list resolved to the    *)
(* rules it holds.  Two grammars are structurally equal when these agree.  *)

RECURSIVE RuleAt(_, _)
RuleAt(aGrammar, path) ==
  LET node == aGrammar.nodes[path] IN
  IF Has(node, "patterns")
    THEN [node EXCEPT !.patterns = [i \in DOMAIN node.patterns |->
                                      RuleAt(aGrammar, node.patterns[i])]]
    ELSE node

StructureOf(aGrammar) ==
  [p \in DOMAIN aGrammar \ {"nodes"} |->
     CASE p = "patterns"   -> [i \in DOMAIN aGrammar.patterns |->
                                 RuleAt(aGrammar, aGrammar.patterns[i])]
       [] p = "repository" -> [k \in DOMAIN aGrammar.repository |->
                                 RuleAt(aGrammar, aGrammar.repository[k])]
       [] OTHER            -> aGrammar[p]]

---------------------------------------------------------------------------
(* The two grammar maps.  A JavaScript object keeps its keys in insertion  *)
(* order and an assignment to an existing key keeps the key's place.       *)

Keys(map)      == [i \in DOMAIN map |-> map[i].scope]
HasKey(map, k) == \E i \in DOMAIN map : map[i].scope = k
RefOf(map, k)  == map[CHOOSE i \in DOMAIN map : map[i].scope = k].ref
RefsOf(map)    == {map[i].ref : i \in DOMAIN map}

\* an assignment that leaves an existing key as it is
PutIfAbsent(map, k, ref) ==
  IF HasKey(map, k) THEN map ELSE Append(map, [scope |-> k, ref |-> ref])

\* map[k] = ref
Put(map, k, ref) ==
  IF HasKey(map, k)
    THEN [i \in DOMAIN map |-> IF map[i].scope = k THEN [scope |-> k, ref |-> ref] ELSE map[i]]
    ELSE Append(map, [scope |-> k, ref |-> ref])

\* a reference no live object has
FreshRef(used) == CHOOSE r \in 1..(Cardinality(used) + 1) :
                    /\ r \notin used
                    /\ \A r2 \in 1..(Cardinality(used) + 1) : r2 \notin used => r <= r2

\* a copy that is the object itself (the variant without deepcopy)
deepcopyShared(aHeap, ref) == [heap |-> aHeap, ref |-> ref]

\* deepcopy(aGrammar): a new object with the same content; gives the heap
\* holding it and its reference
deepcopy(aHeap, ref) ==
  LET copy == FreshRef(DOMAIN aHeap) IN
  [heap |-> (copy :> aHeap[ref]) @@ aHeap, ref |-> copy]

\* for (const [aScope, aGrammar] of Object.entries(originals))
\*   working[aScope] = deepcopy(aGrammar)
RECURSIVE CopyAll(_, _, _, _)
CopyAll(aHeap, originals, working, i) ==
  IF i > Len(originals) THEN [heap |-> aHeap, map |-> working]
  ELSE LET c == deepcopy(aHeap, originals[i].ref) IN
       CopyAll(c.heap, originals, Put(working, originals[i].scope, c.ref), i + 1)

\* the objects no map refers to are garbage
Collect(aHeap, originals, working) ==
  [r \in DOMAIN aHeap \cap (RefsOf(originals) \cup RefsOf(working)) |-> aHeap[r]]

---------------------------------------------------------------------------
(* getKnownScopes, on the structure of the working grammars.               *)

\* the characters of the model in UTF-16 code unit order, which is the
\* order Array.prototype.sort compares strings in
Alphabet == <<"!", "#", "$", "(", ")", ".", "/", "2", "A", "B", "^",
              "a", "b", "c", "d", "e", "f", "g", "h", "i", "j", "k", "l", "m",
              "n", "o", "p", "r", "s", "t", "u", "w", "x", "y", "z", "{", "}">>

CharCode(ch) == CHOOSE i \in DOMAIN Alphabet : Alphabet[i] = ch

RECURSIVE StrLess(_, _)
StrLess(s1, s2) ==
  IF s2 = <<>> THEN FALSE
  ELSE IF s1 = <<>> THEN TRUE
  ELSE IF Head(s1) = Head(s2) THEN StrLess(Tail(s1), Tail(s2))
  ELSE CharCode(Head(s1)) < CharCode(Head(s2))

\* Object.keys(anObject).sort()
RECURSIVE SortedKeys(_)
SortedKeys(keys) ==
  IF keys = {} THEN <<>>
  ELSE LET least == CHOOSE k \in keys : \A k2 \in keys : k2 = k \/ StrLess(k, k2)
       IN <<least>> \o SortedKeys(keys \ {least})

RECURSIVE addScopesFromRule(_)
addScopesFromRule(aRule) ==
  (IF Falsy(aRule, "name")        THEN {} ELSE {aRule.name}) \cup
  (IF Falsy(aRule, "scopeName")   THEN {} ELSE {aRule.scopeName}) \cup
  (IF Falsy(aRule, "contentName") THEN {} ELSE {aRule.contentName}) \cup
  (IF Has(aRule, "patterns")
     THEN UNION {addScopesFromRule(aRule.patterns[i]) : i \in DOMAIN aRule.patterns}
     ELSE {}) \cup
  (IF Has(aRule, "repository")
     THEN UNION {addScopesFromRule(aRule.repository[k]) : k \in DOMAIN aRule.repository}
     ELSE {}) \cup
  UNION {IF Has(aRule, caps)
           THEN UNION {addScopesFromRule(aRule[caps][i]) : i \in DOMAIN aRule[caps]}
           ELSE {} : caps \in {"captures", "beginCaptures", "endCaptures"}}

\* the scopes of one entry without its key (the variant that leaves out
\* `knownScopes[aBaseScope] = true`)
ScopesOfEntryNoKey(aScope, aGrammar) ==
  (IF Has(aGrammar, "patterns")
     THEN UNION {addScopesFromRule(aGrammar.patterns[i]) : i \in DOMAIN aGrammar.patterns}
     ELSE {}) \cup
  (IF Has(aGrammar, "repository")
     THEN UNION {addScopesFromRule(aGrammar.repository[k]) : k \in DOMAIN aGrammar.repository}
     ELSE {})

\* the scopes of one entry of the map: its key, its patterns, its repository
ScopesOfEntry(aScope, aGrammar) ==
  {aScope} \cup
  (IF Has(aGrammar, "patterns")
     THEN UNION {addScopesFromRule(aGrammar.patterns[i]) : i \in DOMAIN aGrammar.patterns}
     ELSE {}) \cup
  (IF Has(aGrammar, "repository")
     THEN UNION {addScopesFromRule(aGrammar.repository[k]) : k \in DOMAIN aGrammar.repository}
     ELSE {})

getKnownScopes(aHeap, working) ==
  SortedKeys(UNION {ScopesOfEntry(working[i].scope, StructureOf(aHeap[working[i].ref]))
                      : i \in DOMAIN working})

\* the keep-set object a caller builds from a list of scopes
KeepSetOf(scopes) == [k \in scopes |-> TRUE]

\* the scopes a keep-set object marks as kept
KeptIn(keep) == {k \in DOMAIN keep : keep[k]}

---------------------------------------------------------------------------
(* pruneGrammars.  The pruner's state st is threaded through its nested    *)
(* functions: the heap it mutates, the working map s2g, the keep-set       *)
(* object s2k, knownBaseScopes, the patterns2keep object of each grammar   *)
(* walked (by the grammar's reference), and err, set when the call stack   *)
(* is exhausted and RangeError unwinds every frame.  Two logs record the   *)
(* pass: calls, the keepGrammar calls that returned with what they         *)
(* returned, and walked, the base scopes whose root list keepPatterns was  *)
(* handed.  ref names the grammar whose repository is gRepo; a rule is     *)
(* named by its path in that grammar.                                      *)

NoRule == <<-1>>

Returns(value, st) == [ret |-> value, st |-> st]

\* RangeError: Maximum call stack size exceeded
Overflow(st) == [ret |-> FALSE, st |-> [st EXCEPT !.err = TRUE]]

\* the array a keepPatterns call is handed: the root list of the grammar
\* (owner = <<>>) or the nested list of the rule at path owner
HasPatterns(st, ref, owner) ==
  IF owner = <<>> THEN Has(st.heap[ref], "patterns")
  ELSE Has(st.heap[ref].nodes[owner], "patterns")

PatternsOf(st, ref, owner) ==
  IF owner = <<>> THEN st.heap[ref].patterns
  ELSE st.heap[ref].nodes[owner].patterns

SetPatterns(st, ref, owner, list) ==
  IF owner = <<>> THEN [st EXCEPT !.heap[ref].patterns = list]
  ELSE [st EXCEPT !.heap[ref].nodes[owner].patterns = list]

\* gRepo[aKey]: the rule, or undefined
RepoRule(st, ref, aKey) ==
  IF Has(st.heap[ref], "repository") /\ aKey \in DOMAIN st.heap[ref].repository
    THEN st.heap[ref].repository[aKey]
    ELSE NoRule

keepScope(s2k, aRule, prop) ==
  IF Falsy(aRule, prop) THEN FALSE
  ELSE Truthy(s2k, aRule[prop])

keepCapture(s2k, aRule, prop) ==
  IF ~Has(aRule, prop) THEN FALSE
  ELSE \E i \in DOMAIN aRule[prop] :
         Truthy(s2k, IF Has(aRule[prop][i], "name") THEN aRule[prop][i].name ELSE Undefined)

\* pats2delete.unshift(anIndex), with the mutant that appends instead
NoteDeletionAtEnd(pats2delete, anIndex) == Append(pats2delete, anIndex)
NoteDeletion(pats2delete, anIndex) == <<anIndex>> \o pats2delete

\* a splice that deletes nothing
SpliceNothing(list, anIndex) == list

\* somePatterns.splice(anIndex, 1), anIndex counted from 0
Splice(list, anIndex) ==
  IF anIndex + 1 \in DOMAIN list
    THEN SubSeq(list, 1, anIndex) \o SubSeq(list, anIndex + 2, Len(list))
    ELSE list

RECURSIVE SpliceAll(_, _)
SpliceAll(list, pats2delete) ==
  IF pats2delete = <<>> THEN list
  ELSE SpliceAll(Splice(list, Head(pats2delete)), Tail(pats2delete))

\* patterns2keep[anInclude] = true
MarkPattern(st, ref, anInclude) == [st EXCEPT !.p2k[ref] = @ \cup {anInclude}]

\* for (const [aRepoKey, aRule] of Object.entries(gRepo))
\*   if (!patterns2keep['#'+aRepoKey]) delete gRepo[aRepoKey]
DeleteUnkept(st, ref) ==
  IF ~Has(st.heap[ref], "repository") THEN st
  ELSE [st EXCEPT !.heap[ref].repository =
          [k \in {k2 \in DOMAIN @ : (<<"#">> \o k2) \in st.p2k[ref]} |-> @[k]]]

RECURSIVE keepPatterns(_, _, _, _), KeepEach(_, _, _, _, _, _), keepRule(_, _, _, _),
          keepInclude(_, _, _, _), keepGrammar(_, _, _)

\* the loop of keepPatterns from index anIndex on; the array is read anew at
\* each step, as an array iterator does
KeepEach(st, ref, owner, anIndex, pats2delete, depth) ==
  IF anIndex >= Len(PatternsOf(st, ref, owner))
    THEN [st |-> st, pats2delete |-> pats2delete]
  ELSE LET kept == keepRule(st, ref, PatternsOf(st, ref, owner)[anIndex + 1], depth + 1) IN
       IF kept.st.err THEN [st |-> kept.st, pats2delete |-> pats2delete]
       ELSE KeepEach(kept.st, ref, owner, anIndex + 1,
                     IF kept.ret THEN pats2delete ELSE NoteDeletion(pats2delete, anIndex),
                     depth)

keepPatterns(st, ref, owner, depth) ==
  IF depth > MaxStack THEN Overflow(st)
  ELSE IF ~HasPatterns(st, ref, owner) THEN Returns(FALSE, st)
  ELSE LET loop == KeepEach(st, ref, owner, 0, <<>>, depth) IN
       IF loop.st.err THEN Returns(FALSE, loop.st)
       ELSE LET list == SpliceAll(PatternsOf(loop.st, ref, owner), loop.pats2delete) IN
            Returns(0 < Len(list), SetPatterns(loop.st, ref, owner, list))

keepRule(st, ref, path, depth) ==
  IF depth > MaxStack THEN Overflow(st)
  ELSE IF path = NoRule THEN Returns(FALSE, st)
  ELSE LET aRule == st.heap[ref].nodes[path] IN
    IF \/ keepScope(st.s2k, aRule, "name")
       \/ keepScope(st.s2k, aRule, "contentName")
       \/ keepCapture(st.s2k, aRule, "captures")
       \/ keepCapture(st.s2k, aRule, "beginCaptures")
       \/ keepCapture(st.s2k, aRule, "endCaptures")
      THEN Returns(TRUE, st)
    ELSE LET nested == keepPatterns(st, ref, path, depth + 1) IN
      IF nested.st.err \/ nested.ret THEN nested
      ELSE LET included == keepInclude(nested.st, ref,
                             IF Has(aRule, "include") THEN aRule.include ELSE <<>>,
                             depth + 1) IN
        IF included.st.err THEN included
        ELSE IF included.ret
          THEN Returns(TRUE, MarkPattern(included.st, ref, aRule.include))
          ELSE Returns(FALSE, included.st)

keepInclude(st, ref, anInclude, depth) ==
  IF depth > MaxStack THEN Overflow(st)
  ELSE IF anInclude = <<>> THEN Returns(FALSE, st)
  ELSE IF StartsWith(anInclude, <<"$">>) THEN Returns(FALSE, st)
  ELSE IF StartsWith(anInclude, <<"#">>) THEN
    IF anInclude \in st.p2k[ref] THEN Returns(TRUE, st)
    ELSE keepRule(st, ref, RepoRule(st, ref, Slice1(anInclude)), depth + 1)
  ELSE IF Truthy(st.s2k, anInclude) THEN Returns(TRUE, st)
  ELSE IF HasKey(st.s2g, anInclude) THEN keepGrammar(st, anInclude, depth + 1)
  ELSE Returns(FALSE, st)

\* a keepGrammar call returns: the call is noted in the log of the pass
\* (revisit: the call found the base scope in knownBaseScopes; kept: the
\* scopes that scopes2keep marks as kept when the call returns)
Noted(call, aBaseScope, revisit) ==
  [call EXCEPT !.st.calls = Append(@, [scope |-> aBaseScope, ret |-> call.ret,
                                       revisit |-> revisit,
                                       kept |-> KeptIn(call.st.s2k)])]

\* an assignment that replaces the keep-set object by the one entry
SetKeptAlone(s2k, aBaseScope, keepThePatterns) == (aBaseScope :> keepThePatterns)

\* scopes2keep[aBaseScope] = keepThePatterns
SetKept(s2k, aBaseScope, keepThePatterns) == (aBaseScope :> keepThePatterns) @@ s2k

keepGrammar(st, aBaseScope, depth) ==
  LET ref == RefOf(st.s2g, aBaseScope) IN
  IF depth > MaxStack THEN Overflow(st)
  ELSE IF aBaseScope \in st.known
    THEN Noted(Returns(Truthy(st.s2k, aBaseScope), st), aBaseScope, TRUE)
  ELSE LET known == [st EXCEPT !.known = @ \cup {aBaseScope}] IN
    IF Truthy(known.s2k, aBaseScope) THEN Noted(Returns(TRUE, known), aBaseScope, FALSE)
    ELSE IF ~Has(known.heap[ref], "patterns")
      THEN Noted(Returns(FALSE, known), aBaseScope, FALSE)
    ELSE LET keepThePatterns ==
               keepPatterns([known EXCEPT !.p2k = (ref :> {}) @@ @,
                                          !.walked = Append(@, aBaseScope)],
                            ref, <<>>, depth + 1) IN
      IF keepThePatterns.st.err THEN keepThePatterns
      ELSE Noted(Returns(keepThePatterns.ret,
                         [DeleteUnkept(keepThePatterns.st, ref) EXCEPT
                            !.s2k = SetKept(@, aBaseScope, keepThePatterns.ret)]),
                 aBaseScope, FALSE)

\* for (const [aBaseScope, aGrammar] of Object.entries(s2g)) keepGrammar(...)
RECURSIVE KeepAll(_, _, _)
KeepAll(st, scopes, i) ==
  IF i > Len(scopes) \/ st.err THEN st
  ELSE KeepAll(keepGrammar(st, scopes[i], 1).st, scopes, i + 1)

\* pruneGrammars(scopes2keep) on the originals: the pruner's final state
pruneGrammars(aHeap, originals, keep) ==
  LET copies == CopyAll(Collect(aHeap, originals, <<>>), originals, <<>>, 1) IN
  KeepAll([heap  |-> copies.heap, s2g |-> copies.map, s2k |-> keep,
           known |-> {}, p2k |-> EmptyMap, err |-> FALSE,
           calls |-> <<>>, walked |-> <<>>],
          Keys(copies.map), 1)

---------------------------------------------------------------------------
(* The grammar store: loadGrammarFrom and the calls of pruneGrammars.      *)

Json == <<".","j","s","o","n">>

\* the keep-sets a caller prunes with, beside the output of getKnownScopes
KeepSets == { {}, {KwA}, {KwB}, {KwR}, {KwR, MetaBlk} }

InitGrammars ==
  /\ heap = EmptyMap
  /\ originalScope2grammar = <<>>
  /\ scope2grammar = <<>>
  /\ loadedGrammars = {}
  /\ pendingLoads = {}
  /\ lastParsed = EmptyMap
  /\ scopes2keep = EmptyMap

\* loadGrammarFrom(aGrammarPath) up to its `await fsp.readFile`
LoadStart(aGrammarPath) ==
  /\ UNCHANGED <<heap, originalScope2grammar, scope2grammar, lastParsed, scopes2keep>>
  /\ UNCHANGED <<svars, rvars, tvars>>
  /\ IF ~EndsWith(aGrammarPath, Json)
       THEN /\ lastCall' = [op |-> "loadGrammarFrom", path |-> aGrammarPath,
                            outcome |-> "not JSON"]
            /\ UNCHANGED <<loadedGrammars, pendingLoads>>
     ELSE IF \/ aGrammarPath \in loadedGrammars
             \/ normalizePath(aGrammarPath) \in loadedGrammars
       THEN /\ lastCall' = [op |-> "loadGrammarFrom", path |-> aGrammarPath,
                            outcome |-> "already loaded"]
            /\ UNCHANGED <<loadedGrammars, pendingLoads>>
     ELSE /\ Cardinality(loadedGrammars) < MaxLoads
          /\ loadedGrammars' = loadedGrammars \cup {normalizePath(aGrammarPath)}
          /\ pendingLoads' = pendingLoads \cup {normalizePath(aGrammarPath)}
          /\ lastCall' = [op |-> "loadGrammarFrom", path |-> aGrammarPath,
                          outcome |-> "reading"]

\* the registration alone (the variant without the loop that rebuilds the
\* working map)
RegisterOnly(aHeap, originals, working, aGrammar) ==
  LET new      == FreshRef(DOMAIN aHeap)
      withNew  == IF Falsy(aGrammar, "scopeName") THEN aHeap
                  ELSE (new :> aGrammar) @@ aHeap
      origs    == IF Falsy(aGrammar, "scopeName") THEN originals
                  ELSE Put(originals, aGrammar.scopeName, new)
  IN [heap |-> Collect(withNew, origs, working),
      originals |-> origs, working |-> working]

\* originalScope2grammar[baseScope] = aGrammar, then the working map is
\* rebuilt from every original
Register(aHeap, originals, working, aGrammar) ==
  LET new      == FreshRef(DOMAIN aHeap)
      withNew  == IF Falsy(aGrammar, "scopeName") THEN aHeap
                  ELSE (new :> aGrammar) @@ aHeap
      origs    == IF Falsy(aGrammar, "scopeName") THEN originals
                  ELSE Put(originals, aGrammar.scopeName, new)
      copies   == CopyAll(Collect(withNew, origs, <<>>), origs, working, 1)
  IN [heap |-> Collect(copies.heap, origs, copies.map),
      originals |-> origs, working |-> copies.map]

\* the rest of loadGrammarFrom if the parse error were caught and the call
\* went on with `aGrammar = {}`
LoadFinishSwallowing(aGrammarPath) ==
  /\ aGrammarPath \in pendingLoads
  /\ pendingLoads' = pendingLoads \ {aGrammarPath}
  /\ UNCHANGED <<loadedGrammars, scopes2keep>>
  /\ UNCHANGED <<svars, rvars, tvars>>
  /\ LET aGrammar == IF Files[aGrammarPath].wellFormed
                        THEN JSONparse(Files[aGrammarPath].doc) ELSE EmptyMap
         reg == Register(heap, originalScope2grammar, scope2grammar, aGrammar)
     IN /\ heap' = reg.heap
        /\ originalScope2grammar' = reg.originals
        /\ scope2grammar' = reg.working
        /\ lastParsed' = IF Falsy(aGrammar, "scopeName") THEN lastParsed
                         ELSE (aGrammar.scopeName :> StructureOf(aGrammar)) @@ lastParsed
        /\ lastCall' = [op |-> "loadGrammarFrom", path |-> aGrammarPath,
                        outcome |-> IF Files[aGrammarPath].wellFormed
                                      THEN "loaded" ELSE "parse failed"]

\* the rest of loadGrammarFrom, once readFile has settled
LoadFinish(aGrammarPath) ==
  /\ aGrammarPath \in pendingLoads
  /\ pendingLoads' = pendingLoads \ {aGrammarPath}
  /\ UNCHANGED <<loadedGrammars, scopes2keep>>
  /\ UNCHANGED <<svars, rvars, tvars>>
  /\ IF aGrammarPath \notin DOMAIN Files
       THEN /\ lastCall' = [op |-> "loadGrammarFrom", path |-> aGrammarPath,
                            outcome |-> "read failed"]
            /\ UNCHANGED <<heap, originalScope2grammar, scope2grammar, lastParsed>>
     ELSE IF ~Files[aGrammarPath].wellFormed
       THEN /\ lastCall' = [op |-> "loadGrammarFrom", path |-> aGrammarPath,
                            outcome |-> "parse failed"]
            /\ UNCHANGED <<heap, originalScope2grammar, scope2grammar, lastParsed>>
     ELSE LET aGrammar == JSONparse(Files[aGrammarPath].doc)
              reg == Register(heap, originalScope2grammar, scope2grammar, aGrammar)
          IN /\ heap' = reg.heap
             /\ originalScope2grammar' = reg.originals
             /\ scope2grammar' = reg.working
             /\ lastParsed' = IF Falsy(aGrammar, "scopeName") THEN lastParsed
                              ELSE (aGrammar.scopeName :> StructureOf(aGrammar)) @@ lastParsed
             /\ lastCall' = [op |-> "loadGrammarFrom", path |-> aGrammarPath,
                             outcome |-> "loaded"]

\* Grammars.pruneGrammars(keep) with a keep-set object the caller has built
Prune(keep) ==
  LET st == pruneGrammars(heap, originalScope2grammar, keep) IN
  /\ heap' = Collect(st.heap, originalScope2grammar, st.s2g)
  /\ scope2grammar' = st.s2g
  /\ scopes2keep' = st.s2k
  /\ lastCall' = [op |-> "pruneGrammars", keep |-> keep,
                  outcome |-> IF st.err THEN "RangeError" ELSE "returned",
                  calls |-> st.calls, walked |-> st.walked]
  /\ UNCHANGED <<originalScope2grammar, loadedGrammars, pendingLoads, lastParsed>>
  /\ UNCHANGED <<svars, rvars, tvars>>

PruneGrammars ==
  \E scopes \in KeepSets \cup {Range(getKnownScopes(heap, scope2grammar))} :
    Prune(KeepSetOf(scopes))

\* the keep-sets a caller prunes the grammars that include each other with
LinkedKeepSets == { {}, {KwA}, {KwB}, {ScN}, {ScA, KwB} }

PruneLinked ==
  \E scopes \in LinkedKeepSets \cup {Range(getKnownScopes(heap, scope2grammar))} :
    Prune(KeepSetOf(scopes))

\* the keep-sets a caller prunes the grammar with $self includes with
SelfKeepSets == { {}, {KwA}, {KwB}, {KwR}, {MetaBlk}, {ScS} }

\* a pruneGrammars call with a keep-set object the caller has built, or,
\* right after a pruneGrammars call, with the object of that call as the
\* call left it
PruneSelf ==
  \E keep \in {KeepSetOf(scopes) : scopes \in SelfKeepSets} \cup
               (IF lastCall.op = "pruneGrammars" THEN {scopes2keep} ELSE {}) :
    Prune(keep)

---------------------------------------------------------------------------
(* chooseBaseScope.                                                        *)

\* the documents a caller asks a grammar for: a path and a first line
DocPaths   == { <<"x",".","s","h">>, <<"x",".","p","y">>, <<"x">> }
FirstLines == { <<"#","!","s","h">>, <<"s","h">>, <<>> }

\* no return value
NoScope == <<>>

\* aString.match(aRegExp) for the expressions of these grammars: literal
\* characters, after an optional "^" that anchors them at the start
IsInfix(part, str) ==
  \E i \in 0..(Len(str) - Len(part)) : SubSeq(str, i + 1, i + Len(part)) = part

Matches(aString, aRegExp) ==
  IF StartsWith(aRegExp, <<"^">>) THEN StartsWith(aString, Tail(aRegExp))
  ELSE IsInfix(aRegExp, aString)

\* the first loop: for (const [aBaseScope, aGrammar] of Object.entries(...))
RECURSIVE FirstLinePass(_, _, _, _)
FirstLinePass(aHeap, working, aFirstLine, i) ==
  IF i > Len(working) THEN NoScope
  ELSE LET aGrammar == aHeap[working[i].ref] IN
       IF ~Falsy(aGrammar, "firstLineMatch") /\ Matches(aFirstLine, aGrammar.firstLineMatch)
         THEN working[i].scope
         ELSE FirstLinePass(aHeap, working, aFirstLine, i + 1)

\* the second loop if it looked at the first entry of each fileTypes only
RECURSIVE FileTypePassFirstEntry(_, _, _, _)
FileTypePassFirstEntry(aHeap, working, aDocPath, i) ==
  IF i > Len(working) THEN NoScope
  ELSE LET aGrammar == aHeap[working[i].ref] IN
       IF /\ Has(aGrammar, "fileTypes")
          /\ aGrammar.fileTypes # <<>>
          /\ EndsWith(aDocPath, aGrammar.fileTypes[1])
         THEN working[i].scope
         ELSE FileTypePassFirstEntry(aHeap, working, aDocPath, i + 1)

\* the second loop, over the grammars and the fileTypes of each
RECURSIVE FileTypePass(_, _, _, _)
FileTypePass(aHeap, working, aDocPath, i) ==
  IF i > Len(working) THEN NoScope
  ELSE LET aGrammar == aHeap[working[i].ref] IN
       IF /\ Has(aGrammar, "fileTypes")
          /\ \E j \in DOMAIN aGrammar.fileTypes : EndsWith(aDocPath, aGrammar.fileTypes[j])
         THEN working[i].scope
         ELSE FileTypePass(aHeap, working, aDocPath, i + 1)

\* chooseBaseScope with the two loops in the other order
chooseByFileTypeFirst(aHeap, working, aDocPath, aFirstLine) ==
  LET byType == FileTypePass(aHeap, working, aDocPath, 1) IN
  IF byType # NoScope THEN byType
  ELSE FirstLinePass(aHeap, working, aFirstLine, 1)

chooseBaseScope(aHeap, working, aDocPath, aFirstLine) ==
  LET byLine == FirstLinePass(aHeap, working, aFirstLine, 1) IN
  IF byLine # NoScope THEN byLine
  ELSE FileTypePass(aHeap, working, aDocPath, 1)

\* a call of Grammars.chooseBaseScope
ChooseBaseScope(aDocPath, aFirstLine) ==
  /\ lastCall' = [op |-> "chooseBaseScope", path |-> aDocPath, firstLine |-> aFirstLine,
                  ret |-> chooseBaseScope(heap, scope2grammar, aDocPath, aFirstLine)]
  /\ UNCHANGED <<gvars, svars, rvars, tvars>>

---------------------------------------------------------------------------
(* Structures: the Map of named structures.  A Map keeps its entries apart *)
(* from its own properties; Object.keys gives the names of the latter.     *)

StructNames  == { <<"a">>, <<"b">>, <<"c">> }
StructValues == { "v1", "v2" }

\* new Map()
NewMap == [entries |-> <<>>, props |-> {}]

MapHas(aMap, aKey) == \E i \in DOMAIN aMap.entries : aMap.entries[i].key = aKey

MapGet(aMap, aKey) ==
  IF MapHas(aMap, aKey)
    THEN aMap.entries[CHOOSE i \in DOMAIN aMap.entries : aMap.entries[i].key = aKey].value
    ELSE "undefined"

MapSet(aMap, aKey, aValue) ==
  IF MapHas(aMap, aKey)
    THEN [aMap EXCEPT !.entries = [i \in DOMAIN @ |->
            IF @[i].key = aKey THEN [key |-> aKey, value |-> aValue] ELSE @[i]]]
    ELSE [aMap EXCEPT !.entries = Append(@, [key |-> aKey, value |-> aValue])]

MapKeys(aMap) == {aMap.entries[i].key : i \in DOMAIN aMap.entries}

\* Object.keys(anObject): its own enumerable property names
ObjectKeys(anObject) == anObject.props

\* newStructure that sets the value whether or not the name is registered
newStructureAlways(aMap, aStructureKey, aStructureValue) ==
  LET after == MapSet(aMap, aStructureKey, aStructureValue) IN
  [structs |-> after, ret |-> MapGet(after, aStructureKey)]

newStructure(aMap, aStructureKey, aStructureValue) ==
  LET after == IF ~MapHas(aMap, aStructureKey)
                 THEN MapSet(aMap, aStructureKey, aStructureValue)
                 ELSE aMap
  IN [structs |-> after, ret |-> MapGet(after, aStructureKey)]

getStructure(aMap, aStructureKey) == MapGet(aMap, aStructureKey)

getStructureNames(aMap) == SortedKeys(ObjectKeys(aMap))

\* the names printAllStructures hands to printStructure, and those it prints
printAllStructures(aMap) ==
  SelectSeq(SortedKeys(ObjectKeys(aMap)), LAMBDA aName : MapHas(aMap, aName))

InitStructures ==
  /\ structs = NewMap
  /\ firstValue = EmptyMap

NewStructure(aStructureKey, aStructureValue) ==
  LET call == newStructure(structs, aStructureKey, aStructureValue) IN
  /\ structs' = call.structs
  /\ firstValue' = IF aStructureKey \in DOMAIN firstValue THEN firstValue
                   ELSE (aStructureKey :> aStructureValue) @@ firstValue
  /\ lastCall' = [op |-> "newStructure", key |-> aStructureKey,
                  value |-> aStructureValue, ret |-> call.ret]
  /\ UNCHANGED <<gvars, rvars, tvars>>

GetStructure(aStructureKey) ==
  /\ lastCall' = [op |-> "getStructure", key |-> aStructureKey,
                  ret |-> getStructure(structs, aStructureKey)]
  /\ UNCHANGED <<gvars, svars, rvars, tvars>>

GetStructureNames ==
  /\ lastCall' = [op |-> "getStructureNames", ret |-> getStructureNames(structs)]
  /\ UNCHANGED <<gvars, svars, rvars, tvars>>

PrintAllStructures ==
  /\ lastCall' = [op |-> "printAllStructures", ret |-> printAllStructures(structs)]
  /\ UNCHANGED <<gvars, svars, rvars, tvars>>

---------------------------------------------------------------------------
(* runTMGTool and the action dispatcher.  ScopeActions is not among the    *)
(* sources; runActionsStartingWith is modelled from its description: it    *)
(* resolves the registered actions whose name starts with the prefix, and  *)
(* runs them one after the other in registration order, or, with parallel  *)
(* set, starts them all and awaits every one of them.                      *)

\* the registered actions, in registration order
Registry == << <<"initialize", "load">>, <<"initialize", "setup">>,
               <<"run", "trace">>, <<"run", "count">>, <<"run", "index">>,
               <<"finalize", "report">>, <<"finalize", "save">> >>

Phases == <<"initialize", "run", "finalize">>

Configs == [initialFiles : { <<>>, << <<"x",".","s","h">> >> }, parallel : BOOLEAN]

PhaseOf(anAction) == Registry[anAction][1]

\* the actions runActionsStartingWith(aPrefix, ...) resolves
ActionsOf(aPrefix) == {a \in DOMAIN Registry : PhaseOf(a) = aPrefix}

Settled(anAction) == actionState[anAction] \in {"fulfilled", "rejected"}

\* the promise runActionsStartingWith(aPrefix, ...) returned
PhaseRejected(aPrefix) ==
  IF config.parallel
    THEN /\ \A a \in ActionsOf(aPrefix) : Settled(a)
         /\ \E a \in ActionsOf(aPrefix) : actionState[a] = "rejected"
    ELSE \E a \in ActionsOf(aPrefix) : actionState[a] = "rejected"

PhaseFulfilled(aPrefix) == \A a \in ActionsOf(aPrefix) : actionState[a] = "fulfilled"

PhaseSettled(aPrefix) == PhaseRejected(aPrefix) \/ PhaseFulfilled(aPrefix)

\* the dispatcher may start an action of the phase under way
MayStart(anAction) ==
  /\ pc = PhaseOf(anAction)
  /\ actionState[anAction] = "idle"
  /\ ~PhaseRejected(pc)
  /\ \A b \in ActionsOf(pc) :
       b < anAction => IF config.parallel THEN actionState[b] # "idle"
                       ELSE actionState[b] = "fulfilled"

\* `await aPromise`: the caller goes on once the promise has settled;
\* NotAwaited is the call without the await
NotAwaited(settled) == TRUE
Awaited(settled) == settled

InitRunner ==
  /\ config \in Configs
  /\ pc = "start"
  /\ actionState = [a \in DOMAIN Registry |-> "idle"]
  /\ phaseLog = <<>>

\* runTMGTool without the test of config.initialFiles
RunTMGToolUnchecked ==
  /\ pc = "start"
  /\ pc' = "initialize"
  /\ phaseLog' = Append(phaseLog, "initialize")
  /\ lastCall' = [op |-> "runTMGTool"]
  /\ UNCHANGED <<config, actionState, gvars, svars, tvars>>

\* runTMGTool(config) up to its first await
RunTMGTool ==
  /\ pc = "start"
  /\ IF Len(config.initialFiles) < 1
       THEN /\ pc' = "exited"
            /\ UNCHANGED phaseLog
       ELSE /\ pc' = "initialize"
            /\ phaseLog' = Append(phaseLog, "initialize")
  /\ lastCall' = [op |-> "runTMGTool"]
  /\ UNCHANGED <<config, actionState, gvars, svars, tvars>>

StartAction(anAction) ==
  /\ MayStart(anAction)
  /\ actionState' = [actionState EXCEPT ![anAction] = "running"]
  /\ lastCall' = [op |-> "start", action |-> anAction]
  /\ UNCHANGED <<config, pc, phaseLog, gvars, svars, tvars>>

SettleAction(anAction, outcome) ==
  /\ actionState[anAction] = "running"
  /\ actionState' = [actionState EXCEPT ![anAction] = outcome]
  /\ lastCall' = [op |-> "settle", action |-> anAction]
  /\ UNCHANGED <<config, pc, phaseLog, gvars, svars, tvars>>

\* runTMGTool goes on after `await ScopeActions.runActionsStartingWith(...)`
Resume ==
  /\ pc \in Range(Phases)
  /\ Awaited(PhaseSettled(pc))
  /\ IF PhaseRejected(pc)
       THEN /\ pc' = "rejected"
            /\ UNCHANGED phaseLog
     ELSE IF pc = "finalize"
       THEN /\ pc' = "returned"
            /\ UNCHANGED phaseLog
     ELSE LET next == IF pc = "initialize" THEN "run" ELSE "finalize" IN
          /\ pc' = next
          /\ phaseLog' = Append(phaseLog, next)
  /\ lastCall' = [op |-> "resume"]
  /\ UNCHANGED <<config, actionState, gvars, svars, tvars>>

---------------------------------------------------------------------------
(* Documents and the document cache.  A document is its file path, its     *)
(* cache name and its lines; the cache maps names to documents.            *)

LF == "\n"
CR == "\r"

\* the strings loadFromStr is called with: all strings over DocChars of at
\* most MaxDocLen characters
MaxDocLen == 4
DocChars  == {"a", CR, LF}

RECURSIVE StringsUpTo(_)
StringsUpTo(n) ==
  IF n = 0 THEN { <<>> }
  ELSE LET shorter == StringsUpTo(n - 1) IN
       shorter \cup {Append(s, c) : s \in shorter, c \in DocChars}

DocStrs  == StringsUpTo(MaxDocLen)
DocNames == { <<"d","1">> }

\* the document files on disk: what fsp.readFile gives for each path
DocFiles ==
  (<<"x",".","s","h">> :> <<"a","b",LF,"b">>) @@
  (<<"x",".","p","y">> :> <<"#","!",LF,"b","a","A","b">>) @@
  (<<"x">>             :> <<"b",CR,LF,"a">>)

\* aStr.split(aSeparator) for a separator of one character: the pieces
\* between the separators, empty pieces included
RECURSIVE SplitFrom(_, _, _, _)
SplitFrom(aStr, aSeparator, i, aLine) ==
  IF i > Len(aStr) THEN << aLine >>
  ELSE IF aStr[i] = aSeparator
    THEN << aLine >> \o SplitFrom(aStr, aSeparator, i + 1, <<>>)
    ELSE SplitFrom(aStr, aSeparator, i + 1, Append(aLine, aStr[i]))

\* a split that also drops a carriage return at the end of a piece
StripCR(aLine) ==
  IF aLine # <<>> /\ aLine[Len(aLine)] = CR
    THEN SubSeq(aLine, 1, Len(aLine) - 1)
    ELSE aLine

splitStrippingCR(aStr, aSeparator) ==
  LET lines == SplitFrom(aStr, aSeparator, 1, <<>>) IN
  [i \in DOMAIN lines |-> StripCR(lines[i])]

split(aStr, aSeparator) == SplitFrom(aStr, aSeparator, 1, <<>>)

\* aStr.substring(start, end), for 0 <= start <= end <= aStr.length
substring(aStr, start, end) == SubSeq(aStr, start + 1, end)

\* new Document()
NewDocument == [filePath |-> <<>>, docName |-> <<>>, docLines |-> <<>>]

refreshFromStr(aDoc, aDocName, aDocStr) ==
  [aDoc EXCEPT !.docName = aDocName, !.docLines = split(aDocStr, LF)]

\* Document.loadFromFile, once readFile has given the content
loadFromFile(aDoc, aPath) ==
  LET filePath == normalizePath(aPath) IN
  refreshFromStr([aDoc EXCEPT !.filePath = filePath], aPath, DocFiles[filePath])

\* DocumentCache.documents.set(aName, aDoc)
SetDocument(docs, aName, aDoc) ==
  [n \in DOMAIN docs \cup {aName} |-> IF n = aName THEN aDoc ELSE docs[n]]

InitTrace ==
  /\ documents = EmptyMap
  /\ tp = [pc |-> "idle"]
  /\ tokenizerCalls = <<>>
  /\ handlerCalls = <<>>
  /\ debugLog = <<>>

\* a call of DocumentCache.loadFromStr
LoadFromStr(docName, docStr) ==
  LET doc == refreshFromStr(NewDocument, docName, docStr) IN
  /\ documents' = SetDocument(documents, docName, doc)
  /\ lastCall' = [op |-> "loadFromStr", name |-> docName, str |-> docStr, ret |-> doc]
  /\ UNCHANGED <<gvars, svars, rvars, tp, tokenizerCalls, handlerCalls, debugLog>>

---------------------------------------------------------------------------
(* traceParseOf.  The tokenizer and the registry of scope actions are the  *)
(* collaborators of the call: the tokenizer gives one token per character, *)
(* scoped by the base scope and by the character, and a rule stack that    *)
(* records the lines it was given.  A call is a process with these         *)
(* positions: loading (at `await DocumentCache.loadFromFile`), tokenizing  *)
(* (at the head of the loop over the lines), running (before               *)
(* `anAction.run(...)` is called), awaiting (at the `await` of the promise *)
(* that call gave), returned, and rejected (the awaited promise rejected   *)
(* and the call threw).  debugLog keeps what is handed to logger.debug;    *)
(* the warnings and the trace banner are left out.                         *)

\* vsctm.INITIAL
INITIAL == <<>>

\* the scopes of the rules a character lies in: an "A" lies in a rule named
\* kw.a nested in a rule of the same name
ScopeOfChar(aChar) ==
  IF aChar = "a" THEN << KwA >>
  ELSE IF aChar = "A" THEN << KwA, KwA >>
  ELSE IF aChar = "b" THEN << KwB >>
  ELSE <<>>

\* aGrammar.tokenizeLine(aLine, ruleStack), aGrammar being the handle that
\* registry.loadGrammar(aBaseScope) gave
tokenizeLine(aBaseScope, aLine, ruleStack) ==
  [tokens    |-> [i \in DOMAIN aLine |->
                    [startIndex |-> i - 1, endIndex |-> i,
                     scopes |-> << aBaseScope >> \o ScopeOfChar(aLine[i])]],
   ruleStack |-> Append(ruleStack, aLine)]

\* ScopeActions.getScopesWithActions(): scope -> its actions, in
\* registration order
ScopesWithActions ==
  (KwA :> << "h1", "h2" >>) @@ (KwB :> << "h3" >>)

NoFilter == [include |-> <<>>, exclude |-> <<>>]

\* the configurations traceParseOf is called with
QuietConfig ==
  [trace |-> FALSE, traceLines |-> NoFilter, traceScopes |-> NoFilter,
   traceActions |-> NoFilter, traceStructures |-> NoFilter]

ShowAllConfig == [QuietConfig EXCEPT !.trace = TRUE]

FilteredConfig ==
  [trace |-> TRUE,
   traceLines      |-> [include |-> <<>>, exclude |-> << <<"^","b">> >>],
   traceScopes     |-> [include |-> << <<"k","w">> >>, exclude |-> <<>>],
   traceActions    |-> [include |-> <<>>, exclude |-> << <<"b">> >>],
   traceStructures |-> NoFilter]

TraceConfigs == {QuietConfig, ShowAllConfig, FilteredConfig}

\* the grammar files loaded while documents are traced
TracePaths == {PathT, PathM}

\* a line handed to logger.debug
Debug(aKind, aText) == [kind |-> aKind, text |-> aText]

\* the index of the first expression that aStr matches, 0 if there is none
RECURSIVE FirstMatch(_, _, _)
FirstMatch(aStr, someRegExps, i) ==
  IF i > Len(someRegExps) THEN 0
  ELSE IF Matches(aStr, someRegExps[i]) THEN i
  ELSE FirstMatch(aStr, someRegExps, i + 1)

\* traceOutput, as set with traceObj
traceOutput(aConfig) == aConfig.trace

\* traceObj(traceOpts, aStr): its return value and what it logged
traceObj(aConfig, traceOpts, aStr) ==
  IF ~aConfig.trace THEN [ret |-> FALSE, log |-> <<>>]
  ELSE IF FirstMatch(aStr, traceOpts.exclude, 1) # 0
    THEN [ret |-> FALSE, log |-> << Debug("EXCLUDED", aStr) >>]
  ELSE IF 0 < Len(traceOpts.include)
    THEN IF FirstMatch(aStr, traceOpts.include, 1) # 0
           THEN [ret |-> TRUE,  log |-> << Debug("INCLUDED", aStr) >>]
           ELSE [ret |-> FALSE, log |-> << Debug("No match", aStr) >>]
  ELSE [ret |-> TRUE, log |-> <<>>]

\* the bucket of a scope if it held the latest substring only
PushTokenAlone(scopes2run, aScope, aText) ==
  IF \E i \in DOMAIN scopes2run : scopes2run[i].scope = aScope
    THEN [i \in DOMAIN scopes2run |->
            IF scopes2run[i].scope = aScope
              THEN [scopes2run[i] EXCEPT !.tokens = << aText >>]
              ELSE scopes2run[i]]
    ELSE Append(scopes2run, [scope |-> aScope, tokens |-> << aText >>])

\* if (!scopes2run[aScope]) scopes2run[aScope] = []; scopes2run[aScope].push(aText)
PushToken(scopes2run, aScope, aText) ==
  IF \E i \in DOMAIN scopes2run : scopes2run[i].scope = aScope
    THEN [i \in DOMAIN scopes2run |->
            IF scopes2run[i].scope = aScope
              THEN [scopes2run[i] EXCEPT !.tokens = Append(@, aText)]
              ELSE scopes2run[i]]
    ELSE Append(scopes2run, [scope |-> aScope, tokens |-> << aText >>])

\* the loop over the scopes of a token, with a scope collected only when
\* its line and the scope itself are shown
RECURSIVE ScopesOfShownToken(_, _, _, _, _, _)
ScopesOfShownToken(aConfig, showLine, aText, someScopes, i, acc) ==
  IF i > Len(someScopes) THEN acc
  ELSE LET aScope    == someScopes[i]
           showScope == traceObj(aConfig, aConfig.traceScopes, aScope)
           shown     == showLine /\ showScope.ret
       IN ScopesOfShownToken(aConfig, showLine, aText, someScopes, i + 1,
            [scopes2run |-> IF shown /\ aScope \in DOMAIN ScopesWithActions
                              THEN PushToken(acc.scopes2run, aScope, aText)
                              ELSE acc.scopes2run,
             log |-> acc.log \o showScope.log \o
                     (IF shown THEN << Debug("scope", aScope) >> ELSE <<>>)])

\* the loop over the scopes of a token: for (const aScope of aToken.scopes)
RECURSIVE ScopesOfToken(_, _, _, _, _, _)
ScopesOfToken(aConfig, showLine, aText, someScopes, i, acc) ==
  IF i > Len(someScopes) THEN acc
  ELSE LET aScope    == someScopes[i]
           showScope == traceObj(aConfig, aConfig.traceScopes, aScope)
       IN ScopesOfToken(aConfig, showLine, aText, someScopes, i + 1,
            [scopes2run |-> IF aScope \in DOMAIN ScopesWithActions
                              THEN PushToken(acc.scopes2run, aScope, aText)
                              ELSE acc.scopes2run,
             log |-> acc.log \o showScope.log \o
                     (IF showLine /\ showScope.ret
                        THEN << Debug("scope", aScope) >> ELSE <<>>)])

\* the loop over the tokens of a line: for (const aToken of lineTokens.tokens)
RECURSIVE TokensOfLine(_, _, _, _, _, _)
TokensOfLine(aConfig, showLine, aLine, someTokens, i, acc) ==
  IF i > Len(someTokens) THEN acc
  ELSE LET aToken == someTokens[i]
           aText  == substring(aLine, aToken.startIndex, aToken.endIndex)
           told   == [acc EXCEPT !.log =
                        IF showLine THEN Append(@, Debug("token", aText)) ELSE @]
       IN TokensOfLine(aConfig, showLine, aLine, someTokens, i + 1,
            ScopesOfToken(aConfig, showLine, aText, aToken.scopes, 1, told))

\* the structures logged after the actions of a scope
RECURSIVE StructuresLog(_, _, _)
StructuresLog(aConfig, structureNames, i) ==
  IF i > Len(structureNames) THEN <<>>
  ELSE LET show == traceObj(aConfig, aConfig.traceStructures, structureNames[i]) IN
       show.log \o
       (IF show.ret THEN << Debug("structure", structureNames[i]) >> ELSE <<>>) \o
       StructuresLog(aConfig, structureNames, i + 1)

\* the call after chooseBaseScope, without the return on a missing scope
AfterLoadAnyway(t, aDoc, aBaseScope, structureNames) ==
  [t EXCEPT !.pc = "tokenizing", !.doc = aDoc, !.baseScope = aBaseScope,
            !.structureNames = structureNames,
            !.ruleStack = INITIAL, !.lineNum = -1]

\* the call after chooseBaseScope: it returns when there is no base scope,
\* and otherwise stands before the first line
AfterLoad(t, aDoc, aBaseScope, structureNames) ==
  IF aBaseScope = NoScope
    THEN [t EXCEPT !.pc = "returned", !.doc = aDoc, !.outcome = "no base scope"]
    ELSE [t EXCEPT !.pc = "tokenizing", !.doc = aDoc, !.baseScope = aBaseScope,
                   !.structureNames = structureNames,
                   !.ruleStack = INITIAL, !.lineNum = -1]

\* the end of the loop body, without the assignment to ruleStack
AfterLineSameStack(t) ==
  IF t.lineNum + 1 < Len(t.doc.docLines)
    THEN [t EXCEPT !.pc = "tokenizing"]
    ELSE [t EXCEPT !.pc = "returned", !.outcome = "done"]

\* the end of the loop body: ruleStack = lineTokens.ruleStack, then the next
\* line or the end of the call
AfterLine(t) ==
  LET next == [t EXCEPT !.ruleStack = t.lineTokens.ruleStack] IN
  IF t.lineNum + 1 < Len(t.doc.docLines)
    THEN [next EXCEPT !.pc = "tokenizing"]
    ELSE [next EXCEPT !.pc = "returned", !.outcome = "done"]

\* a call of Grammars.traceParseOf, up to `await DocumentCache.loadFromFile`
TraceParseOf(aDocPath, aConfig) ==
  /\ tp.pc \in {"idle", "returned", "rejected"}
  /\ tp' = [pc |-> "loading", path |-> aDocPath, config |-> aConfig,
            doc |-> NewDocument, baseScope |-> NoScope, structureNames |-> <<>>,
            ruleStack |-> INITIAL, lineNum |-> -1,
            lineTokens |-> [tokens |-> <<>>, ruleStack |-> INITIAL],
            showLine |-> FALSE, pending |-> <<>>, actionIndex |-> 1,
            settled |-> 0, outcome |-> "running"]
  /\ tokenizerCalls' = <<>>
  /\ handlerCalls' = <<>>
  /\ debugLog' = <<>>
  /\ lastCall' = [op |-> "traceParseOf", path |-> aDocPath]
  /\ UNCHANGED <<documents, gvars, svars, rvars>>

\* the document is loaded and cached; the base scope is chosen
TraceLoaded ==
  /\ tp.pc = "loading"
  /\ LET aDoc       == loadFromFile(NewDocument, tp.path)
         aBaseScope == chooseBaseScope(heap, scope2grammar, aDoc.filePath, aDoc.docLines[1])
     IN /\ documents' = SetDocument(documents, tp.path, aDoc)
        /\ tp' = AfterLoad(tp, aDoc, aBaseScope, getStructureNames(structs))
  /\ lastCall' = [op |-> "traceLoaded"]
  /\ UNCHANGED <<tokenizerCalls, handlerCalls, debugLog, gvars, svars, rvars>>

\* one line: the tokenizer is called and the tokens are grouped by scope
TraceLine ==
  /\ tp.pc = "tokenizing"
  /\ LET lineNum    == tp.lineNum + 1
         aLine      == tp.doc.docLines[lineNum + 1]
         lineTokens == tokenizeLine(tp.baseScope, aLine, tp.ruleStack)
         showLine   == traceObj(tp.config, tp.config.traceLines, aLine)
         grouped    == TokensOfLine(tp.config, showLine.ret, aLine, lineTokens.tokens, 1,
                         [scopes2run |-> <<>>,
                          log |-> showLine.log \o
                                  (IF showLine.ret THEN << Debug("line", aLine) >> ELSE <<>>)])
         stepped    == [tp EXCEPT !.lineNum = lineNum, !.lineTokens = lineTokens,
                                  !.showLine = showLine.ret,
                                  !.pending = grouped.scopes2run, !.actionIndex = 1]
     IN /\ tokenizerCalls' = Append(tokenizerCalls,
                               [aLine |-> aLine, ruleStack |-> tp.ruleStack,
                                ret |-> lineTokens.ruleStack])
        /\ debugLog' = debugLog \o grouped.log
        /\ tp' = IF grouped.scopes2run = <<>> THEN AfterLine(stepped)
                 ELSE [stepped EXCEPT !.pc = "running"]
  /\ lastCall' = [op |-> "traceLine"]
  /\ UNCHANGED <<documents, handlerCalls, gvars, svars, rvars>>

\* the loops over the actions of a scope and over the scopes of the line
\* go on: the next action of the scope, the first action of the next scope,
\* or the end of the loop body
NextRun(t) ==
  IF t.actionIndex < Len(ScopesWithActions[t.pending[1].scope])
    THEN [t EXCEPT !.pc = "running", !.actionIndex = @ + 1]
  ELSE IF Len(t.pending) > 1
    THEN [t EXCEPT !.pc = "running", !.pending = Tail(@), !.actionIndex = 1]
  ELSE AfterLine([t EXCEPT !.pending = <<>>])

\* `anAction.run(...)` without the await: the loops go on at once
RunNotAwaited(t) == NextRun(t)

\* `await anAction.run(...)`: the call is suspended until the promise settles
AwaitRun(t) == [t EXCEPT !.pc = "awaiting"]

\* the awaited promise rejected and the rejection were caught: the loops go on
RunRejectionCaught(t) == NextRun([t EXCEPT !.settled = @ + 1])

\* the awaited promise rejected: the await throws, nothing in traceParseOf
\* catches it, and the promise of the call rejects
RunRejected(t) ==
  [t EXCEPT !.pc = "rejected", !.settled = @ + 1, !.outcome = "action rejected"]

\* anAction.run(aScope, someTokens, lineNum, aDoc, traceOutput) is called,
\* after what is logged before the first action of a scope
TraceRunAction ==
  /\ tp.pc = "running"
  /\ LET aScope     == tp.pending[1].scope
         someTokens == tp.pending[1].tokens
         showScope  == traceObj(tp.config, tp.config.traceScopes, aScope)
         showAction == traceObj(tp.config, tp.config.traceActions, aScope)
         shown      == tp.showLine /\ showScope.ret /\ showAction.ret
         actions    == ScopesWithActions[aScope]
         before     == IF tp.actionIndex = 1
                         THEN showScope.log \o showAction.log \o
                              (IF shown THEN << Debug(">>>>", aScope) >> ELSE <<>>)
                         ELSE <<>>
     IN /\ handlerCalls' = Append(handlerCalls,
                             [anAction |-> actions[tp.actionIndex], aScope |-> aScope,
                              someTokens |-> someTokens, lineNum |-> tp.lineNum,
                              aDoc |-> tp.doc.docName,
                              traceOutput |-> traceOutput(tp.config)])
        /\ debugLog' = debugLog \o before
        /\ tp' = AwaitRun(tp)
  /\ lastCall' = [op |-> "traceRunAction"]
  /\ UNCHANGED <<documents, tokenizerCalls, gvars, svars, rvars>>

\* the promise of the action settles and the call resumes: fulfilled, the
\* loops go on, after what is logged after the last action of a scope;
\* rejected, the call ends
TraceActionSettled(fulfilled) ==
  /\ tp.pc = "awaiting"
  /\ LET aScope     == tp.pending[1].scope
         showScope  == traceObj(tp.config, tp.config.traceScopes, aScope)
         showAction == traceObj(tp.config, tp.config.traceActions, aScope)
         shown      == tp.showLine /\ showScope.ret /\ showAction.ret
         last       == tp.actionIndex = Len(ScopesWithActions[aScope])
         after      == IF last /\ shown
                         THEN StructuresLog(tp.config, tp.structureNames, 1) \o
                              << Debug("<<<<", aScope) >>
                         ELSE <<>>
     IN IF fulfilled
          THEN /\ debugLog' = debugLog \o after
               /\ tp' = NextRun([tp EXCEPT !.settled = @ + 1])
          ELSE /\ debugLog' = debugLog
               /\ tp' = RunRejected(tp)
  /\ lastCall' = [op |-> "traceActionSettled", fulfilled |-> fulfilled]
  /\ UNCHANGED <<documents, tokenizerCalls, handlerCalls, gvars, svars, rvars>>

---------------------------------------------------------------------------
(* The specifications: the grammar store with its pruner, the grammar      *)
(* store with the selector, the structure store, and the runner.           *)

\* the runner before any call of runTMGTool
IdleRunner ==
  /\ config = [initialFiles |-> <<>>, parallel |-> FALSE]
  /\ pc = "start"
  /\ actionState = [a \in DOMAIN Registry |-> "idle"]
  /\ phaseLog = <<>>

Init ==
  /\ InitGrammars
  /\ InitStructures
  /\ IdleRunner
  /\ InitTrace
  /\ lastCall = [op |-> "none"]

InitOfRunner ==
  /\ InitGrammars
  /\ InitStructures
  /\ InitRunner
  /\ InitTrace
  /\ lastCall = [op |-> "none"]

NextGrammars ==
  \/ \E aGrammarPath \in StorePaths : LoadStart(aGrammarPath)
  \/ \E aGrammarPath \in pendingLoads : LoadFinish(aGrammarPath)
  \/ PruneGrammars

NextLinked ==
  \/ \E aGrammarPath \in LinkedPaths : LoadStart(aGrammarPath)
  \/ \E aGrammarPath \in pendingLoads : LoadFinish(aGrammarPath)
  \/ PruneLinked

NextSelf ==
  \/ \E aGrammarPath \in SelfPaths : LoadStart(aGrammarPath)
  \/ \E aGrammarPath \in pendingLoads : LoadFinish(aGrammarPath)
  \/ PruneSelf

NextSelector ==
  \/ \E aGrammarPath \in CallPaths : LoadStart(aGrammarPath)
  \/ \E aGrammarPath \in pendingLoads : LoadFinish(aGrammarPath)
  \/ \E aDocPath \in DocPaths, aFirstLine \in FirstLines :
       ChooseBaseScope(aDocPath, aFirstLine)

NextDocuments ==
  \E docName \in DocNames, docStr \in DocStrs : LoadFromStr(docName, docStr)

NextTrace ==
  \/ \E aGrammarPath \in TracePaths : LoadStart(aGrammarPath)
  \/ \E aGrammarPath \in pendingLoads : LoadFinish(aGrammarPath)
  \/ \E aDocPath \in DocPaths, aConfig \in TraceConfigs : TraceParseOf(aDocPath, aConfig)
  \/ TraceLoaded
  \/ TraceLine
  \/ TraceRunAction
  \/ \E fulfilled \in BOOLEAN : TraceActionSettled(fulfilled)

NextStructures ==
  \/ \E aKey \in StructNames, aValue \in StructValues : NewStructure(aKey, aValue)
  \/ \E aKey \in StructNames : GetStructure(aKey)
  \/ GetStructureNames
  \/ PrintAllStructures

NextRunner ==
  \/ RunTMGTool
  \/ \E anAction \in DOMAIN Registry : StartAction(anAction)
  \/ \E anAction \in DOMAIN Registry, outcome \in {"fulfilled", "rejected"} :
       SettleAction(anAction, outcome)
  \/ Resume

\* runTMGTool with its phases, beside a caller that loads the grammar t and
\* traces the document x.sh
NextFailure ==
  \/ NextRunner
  \/ LoadStart(PathT)
  \/ \E aGrammarPath \in pendingLoads : LoadFinish(aGrammarPath)
  \/ TraceParseOf(<< "x", ".", "s", "h" >>, QuietConfig)
  \/ TraceLoaded
  \/ TraceLine
  \/ TraceRunAction
  \/ \E fulfilled \in BOOLEAN : TraceActionSettled(fulfilled)

Spec           == Init /\ [][NextGrammars]_vars
SpecLinked     == Init /\ [][NextLinked]_vars
SpecSelf       == Init /\ [][NextSelf]_vars
SpecSelector   == Init /\ [][NextSelector]_vars
SpecStructures == Init /\ [][NextStructures]_vars
SpecRunner     == InitOfRunner /\ [][NextRunner]_vars
SpecDocuments  == Init /\ [][NextDocuments]_vars
SpecTrace      == Init /\ [][NextTrace]_vars
SpecFailure    == InitOfRunner /\ [][NextFailure]_vars

---------------------------------------------------------------------------
(* The properties checked of the grammar store (specification Spec).       *)

\* the structure of the working and of the original grammar of a scope
Working(aScope)  == StructureOf(heap[RefOf(scope2grammar, aScope)])
Original(aScope) == StructureOf(heap[RefOf(originalScope2grammar, aScope)])

\* the rules of an object graph that can still be reached: a rule is named
\* by the path at which the parser met it
RECURSIVE RulesUnder(_, _)
RulesUnder(aGrammar, path) ==
  {path} \cup
  (IF Has(aGrammar.nodes[path], "patterns")
     THEN UNION {RulesUnder(aGrammar, aGrammar.nodes[path].patterns[i])
                   : i \in DOMAIN aGrammar.nodes[path].patterns}
     ELSE {})

Surviving(aGrammar) ==
  (IF Has(aGrammar, "patterns")
     THEN UNION {RulesUnder(aGrammar, aGrammar.patterns[i]) : i \in DOMAIN aGrammar.patterns}
     ELSE {}) \cup
  (IF Has(aGrammar, "repository")
     THEN UNION {RulesUnder(aGrammar, aGrammar.repository[k])
                   : k \in DOMAIN aGrammar.repository}
     ELSE {})

\* the latest call was pruneGrammars and it returned
Pruned == lastCall.op = "pruneGrammars" /\ lastCall.outcome = "returned"

\* C1 (monotonic pruning): when pruneGrammars(S1) is followed by
\* pruneGrammars(S2) on the same originals and S1 is a subset of S2, every
\* root pattern, nested pattern and repository entry of a working grammar
\* that survived under S1 survives under S2.
C1_MonotonicPruning ==
  [][ ( /\ Pruned
        /\ Pruned'
        /\ KeptIn(lastCall.keep) \subseteq KeptIn(lastCall'.keep) )
      => \A aScope \in Range(Keys(scope2grammar)) :
           Surviving(heap[RefOf(scope2grammar, aScope)])
             \subseteq Surviving(heap'[RefOf(scope2grammar', aScope)]) ]_vars

\* a grammar whose repository holds a rule a that includes #b and a rule b
\* that includes #a
HasCycle(aStructure) ==
  /\ Has(aStructure, "repository")
  /\ {<<"a">>, <<"b">>} \subseteq DOMAIN aStructure.repository
  /\ Has(aStructure.repository[<<"a">>], "include")
  /\ aStructure.repository[<<"a">>].include = HashB
  /\ Has(aStructure.repository[<<"b">>], "include")
  /\ aStructure.repository[<<"b">>].include = HashA

\* C2 (termination under repository cycles): a pruneGrammars call that keeps
\* no scope returns, and leaves empty the repository of every grammar whose
\* repository holds the cycle a -> #b, b -> #a.
C2_TerminationUnderCycles ==
  (lastCall.op = "pruneGrammars" /\ KeptIn(lastCall.keep) = {}) =>
     /\ lastCall.outcome = "returned"
     /\ \A aScope \in Range(Keys(originalScope2grammar)) :
          HasCycle(Original(aScope)) => DOMAIN Working(aScope).repository = {}

\* the scopes getKnownScopes() gives on freshly loaded grammars
FreshKnownScopes == Range(getKnownScopes(heap, originalScope2grammar))

\* C3 (idempotence of the full keep-set): after pruneGrammars with a keep-set
\* whose members are exactly the scopes getKnownScopes() gives on the freshly
\* loaded grammars, the call has returned and every working grammar is
\* structurally equal to its original.
C3_FullKeepSetIdempotent ==
  (lastCall.op = "pruneGrammars" /\ KeptIn(lastCall.keep) = FreshKnownScopes) =>
     /\ lastCall.outcome = "returned"
     /\ Keys(scope2grammar) = Keys(originalScope2grammar)
     /\ \A aScope \in Range(Keys(originalScope2grammar)) :
          Working(aScope) = Original(aScope)

\* C3 happens: the grammar m, with its nested patterns, its $self include and
\* its repository, and a second grammar were pruned with the full keep-set
C3_Witness ==
  /\ lastCall.op = "pruneGrammars"
  /\ KeptIn(lastCall.keep) = FreshKnownScopes
  /\ Len(originalScope2grammar) = 2
  /\ HasKey(originalScope2grammar, ScM)

\* a rule that carries only match and name
IsLeaf(aRule) == DOMAIN aRule = {"match", "name"}

\* a list of paths is the other with some members left out, the rest in order
RECURSIVE IsSubsequence(_, _)
IsSubsequence(short, long) ==
  IF short = <<>> THEN TRUE
  ELSE IF long = <<>> THEN FALSE
  ELSE IF Head(short) = Head(long) THEN IsSubsequence(Tail(short), Tail(long))
  ELSE IsSubsequence(short, Tail(long))

\* every pattern list that can still be reached in the working grammar is a
\* subsequence of the list the original holds at the same place
ListsAreSubsequences(working, original) ==
  /\ Has(working, "patterns") => IsSubsequence(working.patterns, original.patterns)
  /\ \A path \in Surviving(working) :
       Has(working.nodes[path], "patterns") =>
         IsSubsequence(working.nodes[path].patterns, original.nodes[path].patterns)

\* C6 (keepPatterns): after pruneGrammars has returned, every pattern list of
\* a working grammar holds members of the original list in their original
\* order; a grammar that has patterns and whose base scope is not in the
\* keep-set is recorded as kept iff its root list is then non-empty; and when
\* its root patterns are leaf rules carrying only match and name, the root
\* list is exactly the subsequence of the rules whose name is in the keep-set.
C6_KeepPatterns ==
  Pruned =>
    \A aScope \in Range(Keys(originalScope2grammar)) :
      LET working  == heap[RefOf(scope2grammar, aScope)]
          original == heap[RefOf(originalScope2grammar, aScope)]
      IN /\ ListsAreSubsequences(working, original)
         /\ (Has(original, "patterns") /\ aScope \notin KeptIn(lastCall.keep)) =>
              /\ aScope \in DOMAIN scopes2keep
              /\ scopes2keep[aScope] = (0 < Len(working.patterns))
              /\ (\A i \in DOMAIN Original(aScope).patterns :
                    IsLeaf(Original(aScope).patterns[i])) =>
                   Working(aScope).patterns =
                     SelectSeq(Original(aScope).patterns,
                               LAMBDA aRule : aRule.name \in KeptIn(lastCall.keep))

\* C6 happens: the keep-set {kw.b} on the rules [kw.a, kw.b] of t has deleted
\* the first rule and kept the second
C6_Witness ==
  /\ Pruned
  /\ KeptIn(lastCall.keep) = {KwB}
  /\ HasKey(scope2grammar, ScT)
  /\ Working(ScT).patterns = << [match |-> "b", name |-> KwB] >>
  /\ scopes2keep[ScT]

\* C7 (originals are never mutated): every entry of originalScope2grammar is
\* structurally equal to the definition the latest load of its scopeName
\* parsed, and no object is both an original and a working grammar.
C7_OriginalsNeverMutated ==
  /\ \A aScope \in Range(Keys(originalScope2grammar)) :
       /\ aScope \in DOMAIN lastParsed
       /\ Original(aScope) = lastParsed[aScope]
  /\ RefsOf(originalScope2grammar) \cap RefsOf(scope2grammar) = {}

\* C7 happens: a prune has emptied the working copy of t and the original
\* still holds its two rules
C7_Witness ==
  /\ Pruned
  /\ HasKey(scope2grammar, ScT)
  /\ Working(ScT).patterns = <<>>
  /\ Len(Original(ScT).patterns) = 2

\* the working map holds a copy of every original, equal to it
WorkingIsFresh ==
  /\ Keys(scope2grammar) = Keys(originalScope2grammar)
  /\ \A aScope \in Range(Keys(originalScope2grammar)) :
       Working(aScope) = Original(aScope)
  /\ RefsOf(originalScope2grammar) \cap RefsOf(scope2grammar) = {}

\* C8 as stated: after every loadGrammarFrom call that has returned, the
\* working map holds a deep copy of every original.
C8_RebuiltAfterEveryLoad ==
  (lastCall.op = "loadGrammarFrom"
     /\ lastCall.outcome \in {"not JSON", "already loaded", "loaded"}) => WorkingIsFresh

\* C8, amended: after every loadGrammarFrom call that has read and parsed its
\* file (one that did not return early on a path that is not JSON or is
\* already marked as loaded), the working map holds a deep copy of every
\* original, so that the effect of any earlier pruneGrammars call is gone.
C8_RebuiltAfterParsedLoad ==
  (lastCall.op = "loadGrammarFrom" /\ lastCall.outcome = "loaded") => WorkingIsFresh

\* C8 happens: t was pruned to no patterns, then m was loaded, and the
\* working copy of t holds its two rules again
C8_Witness ==
  /\ lastCall.op = "loadGrammarFrom"
  /\ lastCall.outcome = "loaded"
  /\ lastCall.path = PathM
  /\ ScT \in DOMAIN scopes2keep
  /\ ~scopes2keep[ScT]
  /\ Len(Working(ScT).patterns) = 2

\* C13 (malformed grammar JSON): a loadGrammarFrom call whose file content
\* does not parse ends with the parse error and leaves both grammar maps,
\* and every grammar object they hold, exactly as they were.
C13_MalformedGrammarJSON ==
  [][ (lastCall' # lastCall /\ lastCall'.op = "loadGrammarFrom"
         /\ lastCall'.outcome \notin {"reading", "not JSON", "already loaded"}
         /\ ~Files[lastCall'.path].wellFormed)
        => /\ lastCall'.outcome = "parse failed"
           /\ UNCHANGED <<heap, originalScope2grammar, scope2grammar>> ]_vars

\* C13 happens: t was loaded and pruned to no patterns, then the load of a
\* malformed file failed, and the working copy of t is still the pruned one
C13_Witness ==
  /\ lastCall.op = "loadGrammarFrom"
  /\ lastCall.outcome = "parse failed"
  /\ HasKey(scope2grammar, ScT)
  /\ Working(ScT).patterns = <<>>
  /\ Len(Original(ScT).patterns) = 2

\* the includes followed when a rule is judged on the original grammars
MaxIncludes == 4

\* the rule at path of an original grammar is kept by the keep-set kept: its
\* name, contentName or a capture name is in kept, or a nested pattern is
\* kept, or its include resolves to something kept
RECURSIVE Keepable(_, _, _, _)
Keepable(aGrammar, path, kept, fuel) ==
  LET aRule == aGrammar.nodes[path] IN
  \/ Has(aRule, "name") /\ aRule.name \in kept
  \/ Has(aRule, "contentName") /\ aRule.contentName \in kept
  \/ \E caps \in {"captures", "beginCaptures", "endCaptures"} :
       /\ Has(aRule, caps)
       /\ \E i \in DOMAIN aRule[caps] :
            Has(aRule[caps][i], "name") /\ aRule[caps][i].name \in kept
  \/ /\ Has(aRule, "patterns")
     /\ \E i \in DOMAIN aRule.patterns : Keepable(aGrammar, aRule.patterns[i], kept, fuel)
  \/ /\ Has(aRule, "include")
     /\ fuel > 0
     /\ IF StartsWith(aRule.include, <<"#">>)
          THEN /\ Has(aGrammar, "repository")
               /\ Tail(aRule.include) \in DOMAIN aGrammar.repository
               /\ Keepable(aGrammar, aGrammar.repository[Tail(aRule.include)], kept, fuel - 1)
        ELSE IF StartsWith(aRule.include, <<"$">>) THEN FALSE
        ELSE \/ aRule.include \in kept
             \/ /\ HasKey(originalScope2grammar, aRule.include)
                /\ LET other == heap[RefOf(originalScope2grammar, aRule.include)] IN
                   /\ Has(other, "patterns")
                   /\ \E i \in DOMAIN other.patterns :
                        Keepable(other, other.patterns[i], kept, fuel - 1)

\* the root pattern list of every pruned grammar is the original list without
\* the rules that are not kept
RootListsAreTheKeptRules ==
  Pruned =>
    \A aScope \in Range(Keys(originalScope2grammar)) :
      LET working  == heap[RefOf(scope2grammar, aScope)]
          original == heap[RefOf(originalScope2grammar, aScope)]
      IN (Has(original, "patterns") /\ aScope \notin KeptIn(lastCall.keep)) =>
           working.patterns =
             SelectSeq(original.patterns,
                       LAMBDA path : Keepable(original, path, KeptIn(lastCall.keep),
                                              MaxIncludes))

\* C18 (keepRule): after pruneGrammars has returned, the root pattern list of
\* every grammar whose base scope is not in the keep-set holds exactly the
\* rules that are kept (by name, contentName, a capture name, a kept nested
\* pattern or an include that resolves to something kept), and every kept
\* repository rule that a surviving rule includes by '#key' survives.
C18_KeepRule ==
  /\ RootListsAreTheKeptRules
  /\ Pruned =>
       \A aScope \in Range(Keys(originalScope2grammar)) :
         LET working  == heap[RefOf(scope2grammar, aScope)]
             original == heap[RefOf(originalScope2grammar, aScope)]
         IN \A path \in Surviving(working) :
              ( /\ Has(working.nodes[path], "include")
                /\ StartsWith(working.nodes[path].include, <<"#">>)
                /\ Has(original, "repository")
                /\ Tail(working.nodes[path].include) \in DOMAIN original.repository
                /\ Keepable(original,
                            original.repository[Tail(working.nodes[path].include)],
                            KeptIn(lastCall.keep), MaxIncludes) )
              => Tail(working.nodes[path].include) \in DOMAIN working.repository

\* the keys a grammar's repository holds
RepositoryKeys(aGrammar) ==
  IF Has(aGrammar, "repository") THEN DOMAIN aGrammar.repository ELSE {}

\* C26 (no dangling local includes after pruning): after pruneGrammars has
\* returned, in every working grammar whose root pattern list was walked,
\* every '#key' include of a rule that is left, at the root, nested or in
\* the repository, names a key that the grammar's repository still holds.
C26_NoDanglingLocalIncludes ==
  Pruned =>
    \A aScope \in Range(lastCall.walked) :
      LET working == heap[RefOf(scope2grammar, aScope)] IN
      \A path \in Surviving(working) :
        ( /\ Has(working.nodes[path], "include")
          /\ StartsWith(working.nodes[path].include, <<"#">>) )
        => Tail(working.nodes[path].include) \in RepositoryKeys(working)

\* a path whose grammar file reads and parses, and whose grammar, when it
\* has a scopeName, is registered among the originals
ReadParsedRegistered(aGrammarPath) ==
  /\ aGrammarPath \in DOMAIN Files
  /\ Files[aGrammarPath].wellFormed
  /\ LET aGrammar == JSONparse(Files[aGrammarPath].doc) IN
     ~Falsy(aGrammar, "scopeName") =>
        aGrammar.scopeName \in Range(Keys(originalScope2grammar))

\* C29 (the loaded-path guard is sound): at every point of every
\* interleaving of loadGrammarFrom calls, every path marked in
\* loadedGrammars is one whose file was read and parsed and whose grammar
\* is registered, and a call that returns early as already loaded is for a
\* path whose grammar is registered.
C29_LoadedPathGuardSound ==
  /\ \A aGrammarPath \in loadedGrammars : ReadParsedRegistered(aGrammarPath)
  /\ (lastCall.op = "loadGrammarFrom" /\ lastCall.outcome = "already loaded") =>
       ReadParsedRegistered(normalizePath(lastCall.path))

---------------------------------------------------------------------------
(* The properties checked of grammars that include each other by scope     *)
(* name and of a grammar without patterns (specification SpecLinked).      *)

\* the pass terminates and hands no root pattern list to keepPatterns twice
WalkedOnce ==
  lastCall.op = "pruneGrammars" =>
    /\ lastCall.outcome = "returned"
    /\ \A i \in DOMAIN lastCall.walked, j \in DOMAIN lastCall.walked :
         i # j => lastCall.walked[i] # lastCall.walked[j]

\* C19 (keepGrammar is memoized per base scope): a pruneGrammars call on
\* grammars that include each other by scope name returns, the root pattern
\* list of each grammar is walked at most once, and every keepGrammar call
\* that finds its base scope already visited returns what the visit of that
\* grammar returns.
C19_KeepGrammarMemoized ==
  /\ WalkedOnce
  /\ lastCall.op = "pruneGrammars" =>
       \A i \in DOMAIN lastCall.calls :
         lastCall.calls[i].revisit =>
           \E j \in DOMAIN lastCall.calls :
             /\ ~lastCall.calls[j].revisit
             /\ lastCall.calls[j].scope = lastCall.calls[i].scope
             /\ lastCall.calls[j].ret = lastCall.calls[i].ret

\* C20 (grammar without patterns): every keepGrammar call for a grammar that
\* has no patterns list returns false, whatever the keep-set holds.
C20_GrammarWithoutPatterns ==
  lastCall.op = "pruneGrammars" =>
    \A i \in DOMAIN lastCall.calls :
      ~Has(Original(lastCall.calls[i].scope), "patterns") => ~lastCall.calls[i].ret

\* C22 (keep-set monotonicity within one pass): along the keepGrammar
\* calls of one pruneGrammars call, the scopes that scopes2keep marks as kept
\* start as those of the keep-set handed in and never lose a member; a call
\* adds at most its own base scope, and only when it is the visit of that
\* grammar and its verdict is kept; what the last call leaves is what the
\* pass leaves.
C22_KeepSetMonotonic ==
  lastCall.op = "pruneGrammars" =>
    LET calls == lastCall.calls
        start == KeptIn(lastCall.keep)
    IN /\ \A i \in DOMAIN calls :
            LET before == IF i = 1 THEN start ELSE calls[i - 1].kept IN
            /\ before \subseteq calls[i].kept
            /\ calls[i].kept \ before \subseteq
                 (IF calls[i].ret /\ ~calls[i].revisit THEN {calls[i].scope} ELSE {})
            /\ calls[i].scope \in Range(Keys(scope2grammar))
       /\ start \subseteq KeptIn(scopes2keep)
       /\ lastCall.outcome = "returned" =>
            KeptIn(scopes2keep) = IF calls = <<>> THEN start ELSE calls[Len(calls)].kept

\* C22 happens: with the keep-set {kw.a} the pass over A and B has added
\* the base scope A, whose verdict is kept, and not B, whose verdict is not
C22_Witness ==
  /\ Pruned
  /\ KeptIn(lastCall.keep) = {KwA}
  /\ KeptIn(scopes2keep) = {KwA, ScA}
  /\ DOMAIN scopes2keep = {KwA, ScA, ScB}
  /\ Len(lastCall.calls) = 4

\* the registered originals in every order their loads can have registered
\* them in: the order Object.entries hands them to pruneGrammars in
LoadOrders(originals) ==
  LET n == Len(originals) IN
  { [i \in 1..n |-> originals[f[i]]] :
      f \in { g \in [1..n -> 1..n] : \A i, j \in 1..n : i # j => g[i] # g[j] } }

\* what one pruneGrammars pass leaves: each working grammar and the kept scopes
PrunedTo(st) ==
  [grammars |-> [aScope \in Range(Keys(st.s2g)) |->
                   StructureOf(st.heap[RefOf(st.s2g, aScope)])],
   kept     |-> KeptIn(st.s2k),
   err      |-> st.err]

\* C28 (pruning is independent of the registration order): what a
\* pruneGrammars call leaves, the pruned working grammars and the scopes
\* marked as kept, is what the same call leaves when the same grammars
\* were registered in any other order.
C28_PruningOrderIndependent ==
  lastCall.op = "pruneGrammars" =>
    \A originals \in LoadOrders(originalScope2grammar) :
      PrunedTo(pruneGrammars(heap, originals, lastCall.keep))
        = [grammars |-> [aScope \in Range(Keys(scope2grammar)) |-> Working(aScope)],
           kept     |-> KeptIn(scopes2keep),
           err      |-> lastCall.outcome # "returned"]

---------------------------------------------------------------------------
(* The properties checked of a grammar with $self and $base includes and   *)
(* of repeated pruneGrammars calls (specification SpecSelf).               *)

\* a rule whose only content is an include of $self or $base
DollarOnly(aRule) ==
  DOMAIN aRule = {"include"} /\ StartsWith(aRule.include, <<"$">>)

\* a rule that its own name, contentName or a capture name keeps
KeptByOwnScopes(aRule, kept) ==
  \/ Has(aRule, "name") /\ aRule.name \in kept
  \/ Has(aRule, "contentName") /\ aRule.contentName \in kept
  \/ \E caps \in {"captures", "beginCaptures", "endCaptures"} :
       /\ Has(aRule, caps)
       /\ \E i \in DOMAIN aRule[caps] :
            Has(aRule[caps][i], "name") /\ aRule[caps][i].name \in kept

\* no rule of the list, and no rule below it, is an include of $self or
\* $base alone
RECURSIVE NoDollarBelow(_)
NoDollarBelow(someRules) ==
  \A i \in DOMAIN someRules :
    /\ ~DollarOnly(someRules[i])
    /\ Has(someRules[i], "patterns") => NoDollarBelow(someRules[i].patterns)

\* the same, but for the lists of the rules that their own scopes keep; and
\* every rule of the list has a reason to be there other than a $ include
RECURSIVE NoDollarWalked(_, _)
NoDollarWalked(someRules, kept) ==
  \A i \in DOMAIN someRules :
    /\ ~DollarOnly(someRules[i])
    /\ ~KeptByOwnScopes(someRules[i], kept) =>
         /\ Has(someRules[i], "patterns") => NoDollarWalked(someRules[i].patterns, kept)
         /\ \/ Has(someRules[i], "patterns") /\ someRules[i].patterns # <<>>
            \/ Has(someRules[i], "include") /\ ~StartsWith(someRules[i].include, <<"$">>)

\* the rules of a repository, as a list
RepositoryRules(aStructure) ==
  IF Has(aStructure, "repository")
    THEN LET keys == SortedKeys(DOMAIN aStructure.repository) IN
         [i \in DOMAIN keys |-> aStructure.repository[keys[i]]]
    ELSE <<>>

C27_RepeatedPruningIdempotent ==
  [][ ( /\ Pruned
        /\ lastCall'.op = "pruneGrammars"
        /\ lastCall'.keep = scopes2keep )
      => /\ Keys(scope2grammar') = Keys(scope2grammar)
         /\ \A aScope \in Range(Keys(scope2grammar)) :
              StructureOf(heap'[RefOf(scope2grammar', aScope)]) = Working(aScope) ]_vars

---------------------------------------------------------------------------
(* The property checked of runTMGTool (specification SpecRunner).          *)

PhaseIndex(aPhase) == CHOOSE i \in DOMAIN Phases : Phases[i] = aPhase

\* C4 (phase barrier): the phases started are a prefix of initialize, run,
\* finalize, each once and in this order; an action of a later phase has
\* started only if its phase was started and every action of each earlier
\* phase has settled; and when runTMGTool returns, the three phases have been
\* started and every action has settled.
C4_PhaseBarrier ==
  /\ \E n \in 0..Len(Phases) : phaseLog = SubSeq(Phases, 1, n)
  /\ \A a \in DOMAIN Registry, b \in DOMAIN Registry :
       (PhaseIndex(PhaseOf(a)) < PhaseIndex(PhaseOf(b)) /\ actionState[b] # "idle")
         => Settled(a)
  /\ \A b \in DOMAIN Registry :
       actionState[b] # "idle" => PhaseOf(b) \in Range(phaseLog)
  /\ pc = "returned" => (phaseLog = Phases /\ \A a \in DOMAIN Registry : Settled(a))

\* C4 happens: with config.parallel set, two actions of the last phase run
\* at once after the two earlier phases have settled
C4_Witness ==
  /\ config.parallel
  /\ phaseLog = Phases
  /\ \A b \in ActionsOf("finalize") : actionState[b] = "running"

\* C11 (an empty document list is fatal): when config.initialFiles is empty,
\* runTMGTool has either not been called or has exited the process, no phase
\* has been started and every registered action is idle.
C11_EmptyDocumentListIsFatal ==
  Len(config.initialFiles) < 1 =>
    /\ pc \in {"start", "exited"}
    /\ phaseLog = <<>>
    /\ \A a \in DOMAIN Registry : actionState[a] = "idle"

\* C11 happens: runTMGTool was called with no document and the process exited
C11_Witness ==
  /\ Len(config.initialFiles) < 1
  /\ lastCall.op = "runTMGTool"
  /\ pc = "exited"

---------------------------------------------------------------------------
(* The property checked of chooseBaseScope (specification SpecSelector).   *)

\* the firstLineMatch of the i-th grammar of the working map matches
FirstLineMatches(i, aFirstLine) ==
  LET aGrammar == heap[scope2grammar[i].ref] IN
  /\ Has(aGrammar, "firstLineMatch")
  /\ aGrammar.firstLineMatch # <<>>
  /\ Matches(aFirstLine, aGrammar.firstLineMatch)

\* C5 (selector precedence): chooseBaseScope returns the first grammar in
\* registration order whose firstLineMatch matches the first line, whenever
\* there is one, whatever the path and the fileTypes of the grammars.
C5_SelectorPrecedence ==
  lastCall.op = "chooseBaseScope" =>
    \A i \in DOMAIN scope2grammar :
      ( /\ FirstLineMatches(i, lastCall.firstLine)
        /\ \A j \in 1..(i - 1) : ~FirstLineMatches(j, lastCall.firstLine) )
      => lastCall.ret = scope2grammar[i].scope

\* C5 happens: t, registered first, has the file type of the path and no
\* firstLineMatch; m, registered second, matches the first line and is chosen
C5_Witness ==
  /\ lastCall.op = "chooseBaseScope"
  /\ Keys(scope2grammar) = <<ScT, ScM>>
  /\ lastCall.path = <<"x", ".", "s", "h">>
  /\ lastCall.firstLine = <<"#", "!", "s", "h">>
  /\ lastCall.ret = ScM

\* the i-th grammar of the working map has a file type the path ends with
FileTypeMatches(i, aDocPath) ==
  LET aGrammar == heap[scope2grammar[i].ref] IN
  /\ Has(aGrammar, "fileTypes")
  /\ \E aFileExt \in Range(aGrammar.fileTypes) :
       Len(aFileExt) <= Len(aDocPath)
         /\ SubSeq(aDocPath, Len(aDocPath) - Len(aFileExt) + 1, Len(aDocPath)) = aFileExt

\* C25 (selector pass 2): when no grammar's firstLineMatch matches the
\* first line, chooseBaseScope returns the first grammar in registration
\* order that has a fileTypes entry the path ends with, and no scope when
\* there is none; the working grammars, the path and the first line decide
\* the result.
C25_SelectorFileTypePass ==
  ( /\ lastCall.op = "chooseBaseScope"
    /\ \A i \in DOMAIN scope2grammar : ~FirstLineMatches(i, lastCall.firstLine) )
    => LET typed == { i \in DOMAIN scope2grammar : FileTypeMatches(i, lastCall.path) } IN
       /\ typed = {} => lastCall.ret = NoScope
       /\ \A i \in typed :
            (\A j \in typed : i <= j) => lastCall.ret = scope2grammar[i].scope

\* C25 happens: no first line matches; m, registered first, has the file
\* type of the path as the second of its fileTypes and is chosen before t
C25_Witness ==
  /\ lastCall.op = "chooseBaseScope"
  /\ Keys(scope2grammar) = <<ScM, ScT>>
  /\ lastCall.path = <<"x", ".", "s", "h">>
  /\ lastCall.firstLine = <<>>
  /\ lastCall.ret = ScM

\* C14 (duplicate scopeName on load): when a load parses a grammar whose
\* scopeName is already registered, the call ends normally, the keys of both
\* maps are unchanged, both maps hold the newly parsed definition under that
\* scopeName, and no grammar object of that scopeName holds another one.
C14_DuplicateScopeName ==
  [][ (lastCall' # lastCall /\ lastCall'.op = "loadGrammarFrom"
         /\ lastCall'.outcome \notin {"reading", "not JSON", "already loaded"}
         /\ Files[lastCall'.path].wellFormed
         /\ ~Falsy(Files[lastCall'.path].doc, "scopeName")
         /\ HasKey(originalScope2grammar, Files[lastCall'.path].doc.scopeName))
        => LET aScope == Files[lastCall'.path].doc.scopeName
               parsed == StructureOf(JSONparse(Files[lastCall'.path].doc))
           IN /\ lastCall'.outcome = "loaded"
              /\ Keys(originalScope2grammar') = Keys(originalScope2grammar)
              /\ Keys(scope2grammar') = Keys(scope2grammar)
              /\ StructureOf(heap'[RefOf(originalScope2grammar', aScope)]) = parsed
              /\ StructureOf(heap'[RefOf(scope2grammar', aScope)]) = parsed
              /\ \A ref \in DOMAIN heap' :
                   heap'[ref].scopeName = aScope => StructureOf(heap'[ref]) = parsed ]_vars

\* C14 happens: t.json was loaded, then t2.json with the same scopeName and
\* another pattern list, and the maps hold the definition of t2.json under t
C14_Witness ==
  /\ lastCall.op = "loadGrammarFrom"
  /\ lastCall.outcome = "loaded"
  /\ lastCall.path = PathT2
  /\ PathT \in loadedGrammars \ pendingLoads
  /\ Keys(originalScope2grammar) = <<ScT>>
  /\ Original(ScT).patterns = << [match |-> "r", name |-> KwR] >>
  /\ Working(ScT).patterns = << [match |-> "r", name |-> KwR] >>

---------------------------------------------------------------------------
(* The properties checked of Structures (specification SpecStructures).    *)

\* C9 (first registration wins): the names of the store are those
\* newStructure was called for, each bound to the value of the first such
\* call; newStructure returns that first value and getStructure returns it,
\* or undefined for a name never registered.
C9_FirstRegistrationWins ==
  /\ MapKeys(structs) = DOMAIN firstValue
  /\ \A aKey \in DOMAIN firstValue : MapGet(structs, aKey) = firstValue[aKey]
  /\ lastCall.op = "newStructure" => lastCall.ret = firstValue[lastCall.key]
  /\ lastCall.op = "getStructure" =>
       lastCall.ret = IF lastCall.key \in DOMAIN firstValue
                        THEN firstValue[lastCall.key] ELSE "undefined"

\* C9 happens: a later newStructure call with another value returned the
\* first value
C9_Witness ==
  /\ lastCall.op = "newStructure"
  /\ lastCall.value # firstValue[lastCall.key]
  /\ lastCall.ret = firstValue[lastCall.key]

\* C10 (getStructureNames): the call returns the sorted sequence of exactly
\* the registered names.
C10_StructureNamesSorted ==
  lastCall.op = "getStructureNames" => lastCall.ret = SortedKeys(MapKeys(structs))

---------------------------------------------------------------------------
(* The properties checked of the document cache (specification            *)
(* SpecDocuments).                                                         *)

\* someLines.join(aSeparator)
RECURSIVE join(_, _)
join(someLines, aSeparator) ==
  IF someLines = <<>> THEN <<>>
  ELSE IF Len(someLines) = 1 THEN someLines[1]
  ELSE someLines[1] \o << aSeparator >> \o join(Tail(someLines), aSeparator)

\* the number of characters aChar among the first n of aStr
CountOf(aChar, aStr, n) == Cardinality({i \in 1..n : aStr[i] = aChar})

\* C17 (document line splitting): after loadFromStr(docName, docStr) the
\* cached document has the lines of refreshFromStr: joined with '\n' they
\* give docStr exactly, there is one line more than docStr has '\n'
\* characters, and a carriage return in front of the k-th '\n' is the last
\* character of the k-th line.
C17_DocumentLineSplitting ==
  lastCall.op = "loadFromStr" =>
    LET docStr   == lastCall.str
        docLines == documents[lastCall.name].docLines
    IN /\ lastCall.ret = documents[lastCall.name]
       /\ join(docLines, LF) = docStr
       /\ Len(docLines) = CountOf(LF, docStr, Len(docStr)) + 1
       /\ \A p \in DOMAIN docStr :
            (p > 1 /\ docStr[p] = LF /\ docStr[p - 1] = CR) =>
              LET aLine == docLines[CountOf(LF, docStr, p)] IN
              aLine # <<>> /\ aLine[Len(aLine)] = CR

\* C17 happens: a text with a CRLF line end was split into the line "a\r"
\* and the empty line after the line end
C17_Witness ==
  /\ lastCall.op = "loadFromStr"
  /\ lastCall.str = << "a", CR, LF >>
  /\ documents[lastCall.name].docLines = << << "a", CR >>, <<>> >>

---------------------------------------------------------------------------
(* The properties checked of traceParseOf (specification SpecTrace).       *)

\* C12 (no grammar for a document is not fatal): once a traceParseOf call
\* has its document and chooseBaseScope has given it no scope, the call has
\* returned, the tokenizer was not called and no action was run, and
\* traceParseOf can be called for any document.
C12_NoGrammarIsNotFatal ==
  (tp.pc \notin {"idle", "loading"} /\ tp.baseScope = NoScope) =>
    /\ tp.pc = "returned"
    /\ tp.outcome = "no base scope"
    /\ tokenizerCalls = <<>>
    /\ handlerCalls = <<>>
    /\ \A aDocPath \in DocPaths : ENABLED TraceParseOf(aDocPath, QuietConfig)

\* C12 happens: grammars are loaded, none of them is for the document x,
\* and the call for x has returned with the document in the cache
C12_Witness ==
  /\ tp.pc = "returned"
  /\ tp.outcome = "no base scope"
  /\ tp.path = << "x" >>
  /\ Len(scope2grammar) = 2
  /\ documents[<< "x" >>].docLines = << << "b", CR >>, << "a" >> >>

\* C16 (continuation threading): the tokenizer calls of a traceParseOf call
\* are one per line reached so far, in line order; the first receives
\* INITIAL and each later one receives the rule stack the call before it
\* returned; when the call has worked through its document there is one
\* tokenizer call per line.
C16_ContinuationThreading ==
  tp.pc \notin {"idle", "loading"} =>
    /\ Len(tokenizerCalls) = tp.lineNum + 1
    /\ \A i \in DOMAIN tokenizerCalls :
         /\ i <= Len(tp.doc.docLines)
         /\ tokenizerCalls[i].aLine = tp.doc.docLines[i]
         /\ tokenizerCalls[i].ruleStack =
              IF i = 1 THEN INITIAL ELSE tokenizerCalls[i - 1].ret
    /\ (tp.pc = "returned" /\ tp.outcome = "done") =>
         Len(tokenizerCalls) = Len(tp.doc.docLines)

\* C16 happens: the second line of x.sh was tokenized with the rule stack
\* that the call for the first line returned
C16_Witness ==
  /\ tp.pc = "returned"
  /\ tp.outcome = "done"
  /\ Len(tokenizerCalls) = 2
  /\ tokenizerCalls[1].ruleStack = INITIAL
  /\ tokenizerCalls[2].ruleStack = << << "a", "b" >> >>
  /\ tokenizerCalls[2].aLine = << "b" >>

\* the configuration with its four filters emptied
Unfiltered(aConfig) ==
  [aConfig EXCEPT !.traceLines = NoFilter, !.traceScopes = NoFilter,
                  !.traceActions = NoFilter, !.traceStructures = NoFilter]

\* the action runs of the scopes collected on a line: scope after scope,
\* and the actions of a scope in registration order
RECURSIVE RunsOfScopes(_, _, _, _)
RunsOfScopes(scopes2run, lineNum, aDoc, aFlag) ==
  IF scopes2run = <<>> THEN <<>>
  ELSE LET actions == ScopesWithActions[scopes2run[1].scope] IN
       [k \in DOMAIN actions |->
          [anAction |-> actions[k], aScope |-> scopes2run[1].scope,
           someTokens |-> scopes2run[1].tokens, lineNum |-> lineNum,
           aDoc |-> aDoc.docName, traceOutput |-> aFlag]]
       \o RunsOfScopes(Tail(scopes2run), lineNum, aDoc, aFlag)

\* the action runs of a document from a line on, under a configuration
RECURSIVE DispatchFrom(_, _, _, _, _)
DispatchFrom(aConfig, aDoc, aBaseScope, lineNum, ruleStack) ==
  IF lineNum >= Len(aDoc.docLines) THEN <<>>
  ELSE LET aLine      == aDoc.docLines[lineNum + 1]
           lineTokens == tokenizeLine(aBaseScope, aLine, ruleStack)
           showLine   == traceObj(aConfig, aConfig.traceLines, aLine)
           grouped    == TokensOfLine(aConfig, showLine.ret, aLine, lineTokens.tokens, 1,
                           [scopes2run |-> <<>>, log |-> <<>>])
       IN RunsOfScopes(grouped.scopes2run, lineNum, aDoc, traceOutput(aConfig))
          \o DispatchFrom(aConfig, aDoc, aBaseScope, lineNum + 1, lineTokens.ruleStack)

IsPrefixOf(s, t) == Len(s) <= Len(t) /\ SubSeq(t, 1, Len(s)) = s

\* C15 (trace filters do not affect dispatch): the action runs of a
\* traceParseOf call, each with its scope, matched substrings, line number
\* and document, are at every moment a prefix of the runs the same document
\* and base scope give with the four filters emptied, and are exactly those
\* runs when the call has worked through its document.
C15_FiltersDoNotAffectDispatch ==
  (tp.pc \notin {"idle", "loading"} /\ tp.baseScope # NoScope) =>
    LET unfiltered == DispatchFrom(Unfiltered(tp.config), tp.doc, tp.baseScope, 0, INITIAL) IN
    /\ IsPrefixOf(handlerCalls, unfiltered)
    /\ (tp.pc = "returned" /\ tp.outcome = "done") => handlerCalls = unfiltered

\* C15 happens: with filters that hid the second line, the base scope and
\* the actions of kw.b, the call ran the four actions of x.sh
C15_Witness ==
  /\ tp.pc = "returned"
  /\ tp.outcome = "done"
  /\ tp.config = FilteredConfig
  /\ tp.baseScope = ScT
  /\ Len(handlerCalls) = 4
  /\ handlerCalls[4].aScope = KwB
  /\ handlerCalls[4].lineNum = 1
  /\ Debug("EXCLUDED", KwB) \in Range(debugLog)
  /\ Debug("EXCLUDED", << "b" >>) \in Range(debugLog)
  /\ Debug("No match", ScT) \in Range(debugLog)

\* the substrings of the tokens of a line that have aScope in their scope
\* stack, in token order: each once, or each once for every time the scope
\* stands in the stack of its token
RECURSIVE TextsUnder(_, _, _, _, _)
TextsUnder(aScope, aLine, someTokens, i, perOccurrence) ==
  IF i > Len(someTokens) THEN <<>>
  ELSE LET aToken == someTokens[i]
           aText  == SubSeq(aLine, aToken.startIndex + 1, aToken.endIndex)
           times  == Cardinality({j \in DOMAIN aToken.scopes : aToken.scopes[j] = aScope})
       IN [k \in 1..(IF perOccurrence THEN times ELSE IF times > 0 THEN 1 ELSE 0) |-> aText]
          \o TextsUnder(aScope, aLine, someTokens, i + 1, perOccurrence)

\* the tokens the tokenizer gave for a line of the document of the call
TokensOfLineNum(lineNum) ==
  tokenizeLine(tp.baseScope, tp.doc.docLines[lineNum + 1],
               tokenizerCalls[lineNum + 1].ruleStack).tokens

\* every action run so far was handed a registered scope of its action, a
\* zero-based number of a line of the document, the document, and as
\* substrings what TextsUnder gives for that line and scope; when the call
\* has worked through the document, the scopes run for a line are the
\* scopes with actions that stand in the scope stacks of its tokens
BucketsAre(perOccurrence) ==
  tp.pc \notin {"idle", "loading"} =>
    /\ \A k \in DOMAIN handlerCalls :
         LET run == handlerCalls[k] IN
         /\ run.lineNum \in 0..(Len(tp.doc.docLines) - 1)
         /\ run.lineNum < Len(tokenizerCalls)
         /\ run.aDoc = tp.doc.docName
         /\ run.aScope \in DOMAIN ScopesWithActions
         /\ run.anAction \in Range(ScopesWithActions[run.aScope])
         /\ run.someTokens =
              TextsUnder(run.aScope, tp.doc.docLines[run.lineNum + 1],
                         TokensOfLineNum(run.lineNum), 1, perOccurrence)
    /\ (tp.pc = "returned" /\ tp.outcome = "done") =>
         \A lineNum \in 0..(Len(tp.doc.docLines) - 1) :
           { handlerCalls[k].aScope : k \in { j \in DOMAIN handlerCalls :
                                                handlerCalls[j].lineNum = lineNum } }
             = { aScope \in DOMAIN ScopesWithActions :
                   \E i \in DOMAIN TokensOfLineNum(lineNum) :
                     aScope \in Range(TokensOfLineNum(lineNum)[i].scopes) }

\* C23 as stated (per-line scope buckets): the handler for a scope receives
\* exactly the substrings of the tokens of the line whose scope stack
\* contains the scope, one for each such token, in token order, with the
\* zero-based line number and the document; only scopes with registered
\* actions are run, and no substring of an earlier line is handed on.
C23_PerLineScopeBuckets == BucketsAre(FALSE)

\* C23 (per-line scope buckets, per occurrence): the handler for a scope
\* receives, in token order, the substring of each token of the line once
\* for every time the scope stands in the scope stack of that token, with
\* the zero-based line number and the document; only scopes with registered
\* actions are run, and no substring of an earlier line is handed on.
C23_PerLineScopeBucketsPerOccurrence == BucketsAre(TRUE)

\* C23 happens: on the second line of x.py, "baAb", the actions of kw.b got
\* both "b" and those of kw.a got "a" and, for the two kw.a of its scope
\* stack, "A" twice; nothing of the first line is among them
C23_Witness ==
  /\ tp.pc = "returned"
  /\ tp.outcome = "done"
  /\ tp.path = << "x", ".", "p", "y" >>
  /\ Len(handlerCalls) = 3
  /\ handlerCalls[1] = [anAction |-> "h3", aScope |-> KwB,
                        someTokens |-> << << "b" >>, << "b" >> >>, lineNum |-> 1,
                        aDoc |-> tp.doc.docName, traceOutput |-> tp.config.trace]
  /\ handlerCalls[2].aScope = KwA
  /\ handlerCalls[2].lineNum = 1
  /\ handlerCalls[2].someTokens = << << "a" >>, << "A" >>, << "A" >> >>
  /\ handlerCalls[3].someTokens = handlerCalls[2].someTokens

\* where a scope is first met among the tokens of a line: the index of the
\* first token that has it in its scope stack, and its first place there
FirstMet(aScope, lineNum) ==
  LET someTokens == TokensOfLineNum(lineNum)
      i == CHOOSE n \in DOMAIN someTokens :
             /\ aScope \in Range(someTokens[n].scopes)
             /\ \A m \in 1..(n - 1) : aScope \notin Range(someTokens[m].scopes)
      j == CHOOSE n \in DOMAIN someTokens[i].scopes :
             /\ someTokens[i].scopes[n] = aScope
             /\ \A m \in 1..(n - 1) : someTokens[i].scopes[m] # aScope
  IN << i, j >>

\* the place of an action among the actions registered for a scope
RegisteredAt(anAction, aScope) ==
  CHOOSE k \in DOMAIN ScopesWithActions[aScope] : ScopesWithActions[aScope][k] = anAction

\* the order of two action runs: by line, then by where the scope is first
\* met on the line, then by the registration of the action
RunsBefore(r1, r2) ==
  \/ r1.lineNum < r2.lineNum
  \/ /\ r1.lineNum = r2.lineNum
     /\ LET m1 == FirstMet(r1.aScope, r1.lineNum)
            m2 == FirstMet(r2.aScope, r2.lineNum)
        IN \/ m1[1] < m2[1]
           \/ m1[1] = m2[1] /\ m1[2] < m2[2]
           \/ /\ r1.aScope = r2.aScope
              /\ RegisteredAt(r1.anAction, r1.aScope) < RegisteredAt(r2.anAction, r2.aScope)

\* C24 (dispatch order within one document): of the action runs of a
\* traceParseOf call at most the latest has not settled, and it has not
\* exactly while the call stands at its await; the runs are in strict order
\* of line number, then of where their scope is first met among the tokens
\* of the line, then of registration; and when a line has been tokenized,
\* every run for an earlier line has settled.
C24_DispatchOrder ==
  tp.pc \notin {"idle", "loading"} =>
    /\ tp.settled \in {Len(handlerCalls) - 1, Len(handlerCalls)} \cap Nat
    /\ (tp.settled < Len(handlerCalls)) <=> (tp.pc = "awaiting")
    /\ \A i, j \in DOMAIN handlerCalls :
         i < j => RunsBefore(handlerCalls[i], handlerCalls[j])
    /\ \A k \in DOMAIN handlerCalls :
         handlerCalls[k].lineNum + 1 < Len(tokenizerCalls) => k <= tp.settled

\* C24 happens: the call for x.sh stands at the await of the one action run
\* of its second line; the three runs of the first line, two for kw.a and
\* then one for kw.b, had settled when the second line was tokenized
C24_Witness ==
  /\ tp.pc = "awaiting"
  /\ tp.path = << "x", ".", "s", "h" >>
  /\ Len(tokenizerCalls) = 2
  /\ tp.settled = 3
  /\ [k \in DOMAIN handlerCalls |-> << handlerCalls[k].anAction, handlerCalls[k].lineNum >>]
       = << << "h1", 0 >>, << "h2", 0 >>, << "h3", 0 >>, << "h3", 1 >> >>

---------------------------------------------------------------------------
(* The property checked of failing phases and failing actions              *)
(* (specification SpecFailure).                                            *)

\* C30 (a phase failure stops the pipeline): once an action of the
\* initialize phase has rejected, runTMGTool is in that phase or has
\* rejected, and neither the run nor the finalize phase was started; once
\* an action of the run phase has rejected, the finalize phase was not
\* started; and when an action run awaited by traceParseOf rejects, the
\* call rejects with every run settled, and it tokenizes no further line
\* and runs no further action of the document.
C30_PhaseFailureStops ==
  /\ (\E a \in ActionsOf("initialize") : actionState[a] = "rejected") =>
       /\ pc \in {"initialize", "rejected"}
       /\ phaseLog = << "initialize" >>
       /\ \A b \in ActionsOf("run") \cup ActionsOf("finalize") : actionState[b] = "idle"
  /\ (\E a \in ActionsOf("run") : actionState[a] = "rejected") =>
       /\ pc \in {"run", "rejected"}
       /\ phaseLog = << "initialize", "run" >>
       /\ \A b \in ActionsOf("finalize") : actionState[b] = "idle"
  /\ (pc \in Range(Phases) /\ PhaseRejected(pc)) =>
       /\ ENABLED Resume
       /\ \A b \in DOMAIN Registry : ~ENABLED StartAction(b)
  /\ (lastCall.op = "traceActionSettled" /\ ~lastCall.fulfilled) => tp.pc = "rejected"
  /\ tp.pc = "rejected" =>
       /\ tp.outcome = "action rejected"
       /\ tp.settled = Len(handlerCalls)
       /\ ~ENABLED TraceLine
       /\ ~ENABLED TraceRunAction
       /\ \A fulfilled \in BOOLEAN : ~ENABLED TraceActionSettled(fulfilled)

\* C30 happens: an action of the run phase rejected and runTMGTool rejected
\* with the finalize phase not started; and the first action run of x.sh
\* rejected, with a second action of its scope, a second scope and a second
\* line still to come
C30_Witness ==
  /\ pc = "rejected"
  /\ phaseLog = << "initialize", "run" >>
  /\ tp.pc = "rejected"
  /\ tp.path = << "x", ".", "s", "h" >>
  /\ Len(handlerCalls) = 1
  /\ Len(tp.pending) = 2
  /\ Len(tokenizerCalls) = 1
  /\ Len(tp.doc.docLines) = 2

=============================================================================
